---- MODULE Spec2Model ----
(***************************************************************************)
(* Verification model of the Pinmaker pipeline.                            *)
(*                                                                         *)
(* Part I   StockPhotoService (src/src/stock_photo_service.py): provider   *)
(*          fallback chain, TTL cache, coroutines on one asyncio loop.     *)
(* Part II  ImageAnalyzer (src/src/image_analyzer.py): the orchestration   *)
(*          of the sub-analyses and the Pinterest score.                   *)
(* Part III ImageAnalyzer._analyze_colors: pixel filter, k-means palette.  *)
(* Part IV  ImageAnalyzer._analyze_text: OCR confidence filter, fonts.     *)
(* Part V   ImageAnalyzer._analyze_rule_of_thirds and _analyze_symmetry.   *)
(* Part VI  The minimal analyze endpoint (src/main_minimal.py).            *)
(* Part VII TemplateGenerator.create_template                              *)
(*          (src/src/template_generator.py): content mapping, SVG.         *)
(* Part VIII PreviewGenerator.create_preview                               *)
(*          (src/src/preview_generator.py): parsing and the three passes.  *)
(* Part IX  FontManager (src/src/font_manager.py): registry and listing.   *)
(* Part X   The API handlers (src/main.py, src/backend/main.py,            *)
(*          src/main_minimal.py): validation and error responses.          *)
(***************************************************************************)
EXTENDS Integers, Sequences, FiniteSets, TLC

VARIABLES
    keys,       \* StockPhotoService: the providers whose API key is set
    cache,      \* StockPhotoService.cache: cache key -> [url, timestamp]
    now,        \* datetime.now(), in clock units of 30 minutes
    call,       \* the coroutine of each caller: position and locals
    loop,       \* the caller whose coroutine the event loop is running, 0 if none
    ncalls,     \* number of service calls made so far
    stats,      \* the last result of get_cache_stats
    image,      \* ImageAnalyzer: the image file given to analyze_image
    apc,        \* ImageAnalyzer.analyze_image: the position in the call
    results,    \* ImageAnalyzer.analyze_image: the sub-results computed so far
    colors,     \* ImageAnalyzer._analyze_colors: its argument, locals and result
    text,       \* ImageAnalyzer._analyze_text: the OCR data, locals and result
    layout,     \* ImageAnalyzer._analyze_rule_of_thirds / _analyze_symmetry:
                \* the function called, its argument and its result
    minimal,    \* main_minimal.analyze_image: the request, locals and response
    template,   \* TemplateGenerator.create_template: arguments, locals, result
    preview,    \* PreviewGenerator.create_preview: files, arguments, locals, result
    fonts,      \* FontManager: the registry, the font files, the call in progress
    endpoint    \* an API handler of one of the three applications: request, response

stockVars == <<keys, cache, now, call, loop, ncalls, stats>>
analyzerVars == <<image, apc, results>>

\* what each part of the model leaves alone
nonStock == <<analyzerVars, colors, text, layout, minimal, template, preview, fonts, endpoint>>
nonAnalyzer == <<stockVars, colors, text, layout, minimal, template, preview, fonts, endpoint>>
nonColors == <<stockVars, analyzerVars, text, layout, minimal, template, preview, fonts, endpoint>>
nonText == <<stockVars, analyzerVars, colors, layout, minimal, template, preview, fonts, endpoint>>
nonLayout == <<stockVars, analyzerVars, colors, text, minimal, template, preview, fonts, endpoint>>
nonMinimal == <<stockVars, analyzerVars, colors, text, layout, template, preview, fonts, endpoint>>
nonTemplate == <<stockVars, analyzerVars, colors, text, layout, minimal, preview, fonts, endpoint>>
nonPreview == <<stockVars, analyzerVars, colors, text, layout, minimal, template, fonts, endpoint>>
nonFonts == <<stockVars, analyzerVars, colors, text, layout, minimal, template, preview, endpoint>>
nonEndpoint == <<stockVars, analyzerVars, colors, text, layout, minimal, template, preview, fonts>>

vars == <<stockVars, analyzerVars, colors, text, layout, minimal, template, preview, fonts, endpoint>>

(***************************************************************************)
(* Bounds of the model: the clock stops at MaxTime, and at most MaxCalls   *)
(* calls of the service's methods are made.  The other sets are the inputs *)
(* and the answers of the environment the model draws from.                *)
(***************************************************************************)
MaxTime == 2
MaxCalls == 2
Callers == {1, 2}
Sizes == {<<800, 600>>}
PhotoIds == {1}
Seeds == {1, 1000}

\* a function of the analyzer that is not being called
NotCalled == [pc |-> "idle"]

\* a file that cv2.imread cannot decode (and the image of the parts of the
\* model in which the analyzer does not run)
NoImage == [decodable |-> FALSE, width |-> 0, height |-> 0, total |-> 0, unique |-> 0]

(***************************************************************************)
(* Part I.  StockPhotoService                                              *)
(***************************************************************************)
Providers == {"unsplash", "pexels", "pixabay"}

\* timedelta(hours=1), in clock units of 30 minutes
cache_duration == 2

image_categories ==
    <<"business", "technology", "nature", "food", "travel",
      "lifestyle", "abstract", "minimal", "design", "workspace">>

\* category=None (and the empty string): `not category` is true
NoCategory == ""
InputCategories == {NoCategory, "business"}

\* URLs.  A provider URL carries the photo the provider answered with; the
\* Unsplash URL also carries the appended "&w=..&h=..&fit=crop".
None == [host |-> "none", id |-> 0, w |-> 0, h |-> 0]
Url(host, id, w, h) == [host |-> host, id |-> id, w |-> w, h |-> h]

apis_swapped == <<"pexels", "unsplash", "pixabay">>

apis == <<"unsplash", "pexels", "pixabay">>

\* theme_mapping of get_themed_image (lines 256-265)
theme_mapping(t) ==
    CASE t = "business"   -> <<"business", "office", "professional", "corporate">>
      [] t = "technology" -> <<"technology", "computer", "digital", "innovation">>
      [] t = "lifestyle"  -> <<"lifestyle", "people", "daily life", "modern">>
      [] t = "nature"     -> <<"nature", "landscape", "outdoor", "environment">>
      [] t = "food"       -> <<"food", "cooking", "restaurant", "cuisine">>
      [] t = "travel"     -> <<"travel", "vacation", "destination", "adventure">>
      [] t = "abstract"   -> <<"abstract", "pattern", "geometric", "minimal">>
      [] t = "workspace"  -> <<"workspace", "desk", "office", "productivity">>
      [] OTHER            -> <<t>>

\* str.lower() on the themes the model passes in
InputThemes == {"Business"}
lower(t) == IF t = "Business" THEN "business" ELSE t

Range(s) == {s[i] : i \in DOMAIN s}

\* random.choice(seq): the model draws the first or the last element
Choice(seq) == {seq[1], seq[Len(seq)]}

\* cache_key = f"{api}_{category}_{width}x{height}"
cache_key(api, category, w, h) == <<api, category, w, h>>

\* random.choice(self.image_categories) when no category is given
Categories(category) ==
    IF category = NoCategory THEN Choice(image_categories) ELSE {category}

is_cache_valid_le(key) ==
    /\ key \in DOMAIN cache
    /\ now - cache[key].timestamp <= cache_duration

is_cache_valid_inverted(key) ==
    /\ key \in DOMAIN cache
    /\ now - cache[key].timestamp > cache_duration

\* _is_cache_valid
is_cache_valid(key) ==
    /\ key \in DOMAIN cache
    /\ now - cache[key].timestamp < cache_duration

\* self.cache[cache_key] = {"url": image_url, "timestamp": datetime.now()}
cache_store(key, url) ==
    [k \in DOMAIN cache \cup {key} |->
        IF k = key THEN [url |-> url, timestamp |-> now] ELSE cache[k]]

provider_enabled_always(api) == TRUE

\* _get_image_from_api: `api == "x" and self.x_key`
provider_enabled(api) == api \in keys

\* the URL each provider function returns for the photo it was answered with
image_url(api, id, w, h) ==
    IF api = "unsplash" THEN Url("unsplash", id, w, h) ELSE Url(api, id, 0, 0)

\* what a cache lookup found: whether the key was in the dict, the
\* timestamp of its entry, and the time of the lookup
NoLook == [present |-> FALSE, ts |-> 0, at |-> 0]
Look(key) ==
    [present |-> key \in DOMAIN cache,
     ts |-> IF key \in DOMAIN cache THEN cache[key].timestamp ELSE 0,
     at |-> now]

NoResults == [a \in Providers \cup {"fallback"} |-> FALSE]

Idle ==
    [pc |-> "idle", kind |-> "none", width |-> 0, height |-> 0,
     category |-> NoCategory, idx |-> 0, key |-> <<>>, look |-> NoLook,
     result |-> None, results |-> NoResults, hist |-> <<>>, raised |-> FALSE]

\* one provider has been dealt with (entry e says how): a get_random_image
\* call returns the URL it yielded, and otherwise goes on to the next
\* provider or, after the last, to the fallback; test_apis records only
\* whether a URL came back and always goes on.
next_api(r, e) ==
    LET h == Append(r.hist, e)
        got == e.url # None
        more == [r EXCEPT !.hist = h, !.key = <<>>, !.look = NoLook,
                          !.idx = r.idx + 1,
                          !.pc = IF r.idx < Len(apis) THEN "api" ELSE "fallback"]
    IN  IF r.kind = "test"
        THEN [more EXCEPT !.results[e.api] = got, !.hist = <<>>]
        ELSE IF got
             THEN [r EXCEPT !.hist = h, !.key = <<>>, !.look = NoLook,
                            !.result = e.url, !.pc = "return"]
             ELSE more

provider_exception_escapes(r, e) ==
    [r EXCEPT !.hist = Append(r.hist, e), !.key = <<>>, !.look = NoLook,
              !.result = None, !.pc = "return"]

\* `except Exception` in the provider function (and around it in
\* get_random_image): the provider yields nothing and the chain goes on
provider_exception(r, e) == next_api(r, e)

\* the record of one provider of the chain: how it ended ("unconfigured",
\* "hit", "url", "none", "exc"), the URL it yielded, the cache key it used,
\* what the cache lookup found (kept for a hit and for a stored URL), and
\* the time the entry was stored (for a stored URL)
Entry(api, outcome, url, key, look, at) ==
    [api |-> api, outcome |-> outcome, url |-> url, key |-> key,
     look |-> look, at |-> at]

StockInit ==
    /\ keys \in SUBSET Providers
    /\ cache = <<>>
    /\ now = 0
    /\ call = [c \in Callers |-> Idle]
    /\ loop = 0
    /\ ncalls = 0
    /\ stats = [total_entries |-> 0, valid_entries |-> 0, expired_entries |-> 0]
    /\ image = NoImage
    /\ apc = "start"
    /\ results = <<>>
    /\ colors = NotCalled
    /\ text = NotCalled
    /\ layout = NotCalled
    /\ minimal = NotCalled
    /\ template = NotCalled
    /\ preview = NotCalled
    /\ fonts = NotCalled
    /\ endpoint = NotCalled

\* A call is made: its coroutine takes the lowest free slot of Callers.
Invoke(c, kind, w, h, category) ==
    /\ call[c].pc = "idle"
    /\ \A d \in Callers : d < c => call[d].pc # "idle"
    /\ ncalls < MaxCalls
    /\ ncalls' = ncalls + 1
    /\ call' = [call EXCEPT ![c] =
            [Idle EXCEPT !.pc = "pending", !.kind = kind, !.width = w,
                         !.height = h, !.category = category]]
    /\ UNCHANGED <<keys, cache, now, loop, stats>>
    /\ UNCHANGED nonStock

\* get_random_image(width, height, category): the coroutine is created
GetRandomImage(c) ==
    \E s \in Sizes, category \in InputCategories :
        Invoke(c, "random", s[1], s[2], category)

\* get_themed_image(theme, width, height)
GetThemedImage(c) ==
    \E s \in Sizes, theme \in InputThemes :
        \E selected_term \in Choice(theme_mapping(lower(theme))) :
            Invoke(c, "random", s[1], s[2], selected_term)

\* test_apis(): every configured provider is asked for (400, 300, "test")
TestApis(c) == Invoke(c, "test", 400, 300, "test")

\* the event loop runs one coroutine at a time, and a coroutine keeps the
\* loop until it awaits something that suspends it
CanRun(c) == loop = 0

\* the event loop starts the coroutine
Begin(c) ==
    /\ call[c].pc = "pending"
    /\ CanRun(c)
    /\ loop' = c
    /\ call' = [call EXCEPT ![c].pc = "api", ![c].idx = 1]
    /\ UNCHANGED <<keys, cache, now, ncalls, stats>>
    /\ UNCHANGED nonStock

\* _get_image_from_api and the start of _get_<provider>_image: the key
\* check, the choice of the category, the cache lookup, and requests.get
GetImageFromApi(c) ==
    LET r == call[c]
        api == apis[r.idx]
    IN  /\ r.pc = "api"
        /\ loop = c
        /\ IF ~provider_enabled(api)
           THEN call' = [call EXCEPT ![c] =
                    next_api(r, Entry(api, "unconfigured", None, <<>>, NoLook, 0))]
           ELSE \E category \in Categories(r.category) :
                    LET key == cache_key(api, category, r.width, r.height)
                    IN  IF is_cache_valid(key)
                        THEN call' = [call EXCEPT ![c] =
                                next_api(r, Entry(api, "hit", cache[key].url, key,
                                                  Look(key), 0))]
                        ELSE call' = [call EXCEPT ![c] =
                                [r EXCEPT !.pc = "request", !.key = key,
                                          !.look = Look(key)]]
        /\ UNCHANGED <<keys, cache, now, loop, ncalls, stats>>
        /\ UNCHANGED nonStock

\* requests.get returns 200 with a usable photo: the URL is cached and returned
ProviderAnswers(c) ==
    LET r == call[c]
        api == apis[r.idx]
    IN  /\ r.pc = "request"
        /\ \E id \in PhotoIds :
            LET url == image_url(api, id, r.width, r.height)
            IN  /\ cache' = cache_store(r.key, url)
                /\ call' = [call EXCEPT ![c] =
                        next_api(r, Entry(api, "url", url, r.key, r.look, now))]
        /\ UNCHANGED <<keys, now, loop, ncalls, stats>>
        /\ UNCHANGED nonStock

\* a status other than 200, or a response without photo or URL: return None
ProviderEmpty(c) ==
    LET r == call[c]
    IN  /\ r.pc = "request"
        /\ call' = [call EXCEPT ![c] =
                next_api(r, Entry(apis[r.idx], "none", None, <<>>, NoLook, 0))]
        /\ UNCHANGED <<keys, cache, now, loop, ncalls, stats>>
        /\ UNCHANGED nonStock

\* requests.get or response.json() raises (network error, timeout,
\* malformed response)
ProviderRaises(c) ==
    LET r == call[c]
    IN  /\ r.pc = "request"
        /\ call' = [call EXCEPT ![c] =
                provider_exception(r, Entry(apis[r.idx], "exc", None, <<>>,
                                            NoLook, 0))]
        /\ UNCHANGED <<keys, cache, now, loop, ncalls, stats>>
        /\ UNCHANGED nonStock

\* _get_fallback_image: the picsum URL with a random seed
GetFallbackImage(c) ==
    LET r == call[c]
    IN  /\ r.pc = "fallback"
        /\ \E random_seed \in Seeds :
            call' = [call EXCEPT ![c] =
                IF r.kind = "test"
                THEN [r EXCEPT !.pc = "return", !.results["fallback"] = TRUE]
                ELSE [r EXCEPT !.pc = "return",
                        !.result = Url("picsum", random_seed, r.width, r.height)]]
        /\ UNCHANGED <<keys, cache, now, loop, ncalls, stats>>
        /\ UNCHANGED nonStock

\* the coroutine returns its result and gives the loop back
Return(c) ==
    /\ call[c].pc = "return"
    /\ loop = c
    /\ loop' = 0
    /\ call' = [call EXCEPT ![c] = Idle]
    /\ UNCHANGED <<keys, cache, now, ncalls, stats>>
    /\ UNCHANGED nonStock

\* clear_cache()
ClearCache ==
    /\ loop = 0
    /\ ncalls < MaxCalls
    /\ ncalls' = ncalls + 1
    /\ cache' = <<>>
    /\ UNCHANGED <<keys, now, call, loop, stats>>
    /\ UNCHANGED nonStock

\* get_cache_stats()
GetCacheStats ==
    /\ loop = 0
    /\ ncalls < MaxCalls
    /\ ncalls' = ncalls + 1
    /\ LET valid_entries == Cardinality({k \in DOMAIN cache : is_cache_valid(k)})
       IN  stats' = [total_entries |-> Cardinality(DOMAIN cache),
                     valid_entries |-> valid_entries,
                     expired_entries |-> Cardinality(DOMAIN cache) - valid_entries]
    /\ UNCHANGED <<keys, cache, now, call, loop>>
    /\ UNCHANGED nonStock

\* time passes
Tick ==
    /\ now < MaxTime
    /\ now' = now + 1
    /\ UNCHANGED <<keys, cache, call, loop, ncalls, stats>>
    /\ UNCHANGED nonStock

StockNext ==
    \/ \E c \in Callers : GetRandomImage(c)
    \/ \E c \in Callers : GetThemedImage(c)
    \/ \E c \in Callers : TestApis(c)
    \/ \E c \in Callers : Begin(c)
    \/ \E c \in Callers : GetImageFromApi(c)
    \/ \E c \in Callers : ProviderAnswers(c)
    \/ \E c \in Callers : ProviderEmpty(c)
    \/ \E c \in Callers : ProviderRaises(c)
    \/ \E c \in Callers : GetFallbackImage(c)
    \/ \E c \in Callers : Return(c)
    \/ ClearCache
    \/ GetCacheStats
    \/ Tick

Spec == StockInit /\ [][StockNext]_vars

(***************************************************************************)
(* Part II.  ImageAnalyzer                                                 *)
(*                                                                         *)
(* An image is its decoded size, the sum of all its channel values (the    *)
(* mean brightness np.mean(image_rgb) is total / (3 * width * height)) and *)
(* the number of distinct colours among its pixels.                        *)
(***************************************************************************)
ImageSizes ==
    {<<1000, 1500>>, <<300, 200>>, <<600, 900>>, <<599, 900>>, <<600, 899>>,
     <<450, 900>>, <<449, 900>>, <<720, 900>>, <<721, 900>>}

Channels(w, h) == 3 * w * h

\* the images the model analyses: uniform images of one grey level, and
\* images of 99, 100 or 101 colours whose channel sum is at or next to a
\* brightness threshold
Images ==
    {[decodable |-> TRUE, width |-> s[1], height |-> s[2],
      total |-> m * Channels(s[1], s[2]), unique |-> 1] :
        s \in ImageSizes, m \in {0, 49, 50, 128, 200, 201, 255}}
    \cup
    {[decodable |-> TRUE, width |-> s[1], height |-> s[2],
      total |-> m * Channels(s[1], s[2]) + d, unique |-> u] :
        s \in ImageSizes, m \in {50, 128, 200}, d \in {-1, 0, 1},
        u \in {99, 100, 101}}
    \cup
    {NoImage}

aspect_ratio_inverted(w, h) == 2 * h >= w /\ 5 * h <= 4 * w

\* 0.5 <= width / height <= 0.8
aspect_ratio_in_range(w, h) == 2 * w >= h /\ 5 * w <= 4 * h

Max(a, b) == IF a >= b THEN a ELSE b
Min(a, b) == IF a <= b THEN a ELSE b

When(cond, rec) == IF cond THEN <<rec>> ELSE <<>>
Penalty(cond, n) == IF cond THEN n ELSE 0

get_pinterest_recommendations_bright_free(img) ==
    LET width == img.width
        height == img.height
        dark == img.total < 50 * Channels(width, height)
        bright == ~dark /\ img.total > 200 * Channels(width, height)
        recommendations ==
            When(~aspect_ratio_in_range(width, height), "aspect") \o
            When(width < 600, "width") \o
            When(height < 900, "height") \o
            When(dark, "dark") \o
            When(bright, "bright") \o
            When(img.unique < 100, "colors")
        score ==
            100 - Penalty(~aspect_ratio_in_range(width, height), 15)
                - Penalty(width < 600, 10)
                - Penalty(height < 900, 10)
                - Penalty(dark, 10)
                - Penalty(img.unique < 100, 5)
        pinterest_score == Max(0, Min(100, score))
    IN  [pinterest_score |-> pinterest_score,
         recommendations |-> recommendations,
         optimal_for_pinterest |-> pinterest_score >= 80]

\* _get_pinterest_recommendations
get_pinterest_recommendations(img) ==
    LET width == img.width
        height == img.height
        dark == img.total < 50 * Channels(width, height)
        bright == ~dark /\ img.total > 200 * Channels(width, height)
        recommendations ==
            When(~aspect_ratio_in_range(width, height), "aspect") \o
            When(width < 600, "width") \o
            When(height < 900, "height") \o
            When(dark, "dark") \o
            When(bright, "bright") \o
            When(img.unique < 100, "colors")
        score ==
            100 - Penalty(~aspect_ratio_in_range(width, height), 15)
                - Penalty(width < 600, 10)
                - Penalty(height < 900, 10)
                - Penalty(dark, 10)
                - Penalty(bright, 5)
                - Penalty(img.unique < 100, 5)
        pinterest_score == Max(0, Min(100, score))
    IN  [pinterest_score |-> pinterest_score,
         recommendations |-> recommendations,
         optimal_for_pinterest |-> pinterest_score >= 80]

\* the entries of the results dict of analyze_image, in the order in which
\* the dict literal evaluates them
SubAnalyses ==
    <<"image_info", "color_analysis", "text_analysis", "layout_analysis",
      "background_analysis", "visual_elements", "pinterest_optimization">>

NoPinterest ==
    [pinterest_score |-> 0, recommendations |-> <<>>,
     optimal_for_pinterest |-> FALSE]

AnalyzerInit ==
    /\ image \in Images
    /\ apc = "start"
    /\ results = <<>>
    /\ keys = {}
    /\ cache = <<>>
    /\ now = 0
    /\ call = [c \in Callers |-> Idle]
    /\ loop = 0
    /\ ncalls = 0
    /\ stats = [total_entries |-> 0, valid_entries |-> 0, expired_entries |-> 0]
    /\ colors = NotCalled
    /\ text = NotCalled
    /\ layout = NotCalled
    /\ minimal = NotCalled
    /\ template = NotCalled
    /\ preview = NotCalled
    /\ fonts = NotCalled
    /\ endpoint = NotCalled

\* cv2.imread: None for a file that cannot be decoded, and the ValueError
\* raised for it leaves analyze_image through `except ...: raise`
LoadImage ==
    /\ apc = "start"
    /\ apc' = IF image.decodable THEN SubAnalyses[1] ELSE "raised"
    /\ UNCHANGED <<image, results>>
    /\ UNCHANGED nonAnalyzer

After(name) ==
    LET i == CHOOSE j \in DOMAIN SubAnalyses : SubAnalyses[j] = name
    IN  IF i < Len(SubAnalyses) THEN SubAnalyses[i + 1] ELSE "done"

\* a sub-analysis returns its sub-result: how it was obtained ("ok", or
\* "default" for the empty result _analyze_text substitutes) and, for
\* pinterest_optimization, its value
Returns(name, value) ==
    /\ apc = name
    /\ results' = Append(results, [name |-> name, how |-> "ok", value |-> value])
    /\ apc' = After(name)
    /\ UNCHANGED image
    /\ UNCHANGED nonAnalyzer

\* a sub-analysis raises: nothing in analyze_image catches it before
\* `except Exception as e: ...; raise`, so the call raises and the results
\* computed so far are lost
Raises(name) ==
    /\ apc = name
    /\ apc' = "raised"
    /\ results' = <<>>
    /\ UNCHANGED image
    /\ UNCHANGED nonAnalyzer

GetImageInfo == Returns("image_info", NoPinterest)

AnalyzeColors == Returns("color_analysis", NoPinterest)
AnalyzeColorsRaises == Raises("color_analysis")

AnalyzeText == Returns("text_analysis", NoPinterest)

\* _analyze_text catches its own exceptions and returns the empty result
AnalyzeTextFails ==
    /\ apc = "text_analysis"
    /\ results' = Append(results, [name |-> "text_analysis", how |-> "default",
                                   value |-> NoPinterest])
    /\ apc' = After("text_analysis")
    /\ UNCHANGED image
    /\ UNCHANGED nonAnalyzer

AnalyzeLayout == Returns("layout_analysis", NoPinterest)
AnalyzeLayoutRaises == Raises("layout_analysis")

AnalyzeBackground == Returns("background_analysis", NoPinterest)
AnalyzeBackgroundRaises == Raises("background_analysis")

AnalyzeVisualElements == Returns("visual_elements", NoPinterest)
AnalyzeVisualElementsRaises == Raises("visual_elements")

GetPinterestRecommendations ==
    Returns("pinterest_optimization", get_pinterest_recommendations(image))
GetPinterestRecommendationsRaises == Raises("pinterest_optimization")

AnalyzerNext ==
    \/ LoadImage
    \/ GetImageInfo
    \/ AnalyzeColors
    \/ AnalyzeColorsRaises
    \/ AnalyzeText
    \/ AnalyzeTextFails
    \/ AnalyzeLayout
    \/ AnalyzeLayoutRaises
    \/ AnalyzeBackground
    \/ AnalyzeBackgroundRaises
    \/ AnalyzeVisualElements
    \/ AnalyzeVisualElementsRaises
    \/ GetPinterestRecommendations
    \/ GetPinterestRecommendationsRaises

AnalyzerSpec == AnalyzerInit /\ [][AnalyzerNext]_vars

(***************************************************************************)
(* Part III.  ImageAnalyzer._analyze_colors                                *)
(*                                                                         *)
(* image.reshape(-1, 3) is the sequence of the image's pixels in row       *)
(* order.  It is kept run-length encoded: a sequence of runs, each of n    *)
(* consecutive pixels of one colour rgb, so that a 100x100 image of one    *)
(* colour is one run of 10000 pixels.  Percentages are kept in tenths of a *)
(* percent (1000 is 100.0).  The colour names, looked up in the CSS3 table *)
(* of webcolors, are left out of a swatch.                                 *)
(***************************************************************************)
MaxRuns == 2

\* the colours of the pixels: black, white, the means 20, 21, 234 and 235
\* at and next to the two thresholds of the mask, and two mid colours
Palette ==
    {<<0, 0, 0>>, <<20, 20, 20>>, <<21, 21, 21>>, <<200, 100, 60>>,
     <<60, 100, 200>>, <<234, 234, 234>>, <<235, 235, 235>>, <<255, 255, 255>>}

Run(rgb, n) == [rgb |-> rgb, n |-> n]

\* images of a few pixels, and 100x100 images of one colour or of two halves
PixelArrays ==
    UNION {[1..k -> {Run(c, n) : c \in Palette, n \in {1, 2}}] : k \in 1..MaxRuns}
    \cup {<<Run(c, 10000)>> : c \in Palette}
    \cup {<<Run(c, 5000), Run(d, 5000)>> : c \in {<<200, 100, 60>>, <<20, 20, 20>>},
                                            d \in Palette}

RECURSIVE Sum(_, _)
Sum(f, S) ==
    IF S = {} THEN 0
    ELSE LET x == CHOOSE y \in S : TRUE IN f[x] + Sum(f, S \ {x})

\* len(pixels)
len(pixels) == Sum([i \in DOMAIN pixels |-> pixels[i].n], DOMAIN pixels)

\* np.mean(pixels, axis=1) > 20 and np.mean(pixels, axis=1) < 235
mask(rgb) ==
    rgb[1] + rgb[2] + rgb[3] > 3 * 20 /\ rgb[1] + rgb[2] + rgb[3] < 3 * 235

\* pixels[mask], and all the pixels when the mask leaves none
filtered_pixels(pixels) ==
    LET filtered == SelectSeq(pixels, LAMBDA run : mask(run.rgb))
    IN  IF len(filtered) = 0 THEN pixels ELSE filtered

n_colors(filtered) == Min(8, len(filtered))

Distinct(pixels) == {pixels[i].rgb : i \in DOMAIN pixels}

\* KMeans(n_clusters, random_state=42, n_init=10).fit(filtered_pixels).labels_:
\* every pixel gets the index of the nearest centre, so pixels of one colour
\* share a label; which index a cluster gets is decided by the seeded
\* initialisation of the library, not by the order of the pixels
KMeans(filtered, n_clusters) == [Distinct(filtered) -> 0..(n_clusters - 1)]

\* Counter(labels): the population of each cluster that has a pixel
Counter(filtered, labels) ==
    [k \in {labels[c] : c \in Distinct(filtered)} |->
        Sum([i \in DOMAIN filtered |->
                IF labels[filtered[i].rgb] = k THEN filtered[i].n ELSE 0],
            DOMAIN filtered)]

\* the keys of Counter(labels) in the order in which a dict keeps them: the
\* order in which each label first occurs in labels
RECURSIVE insertion_order(_, _, _)
insertion_order(filtered, labels, i) ==
    IF i = 0 THEN <<>>
    ELSE LET before == insertion_order(filtered, labels, i - 1)
             k == labels[filtered[i].rgb]
         IN  IF \E j \in DOMAIN before : before[j] = k
             THEN before
             ELSE Append(before, k)

\* Counter.most_common(): sorted(items, key=count, reverse=True), a stable
\* sort, so that clusters of equal population stay in insertion order
RECURSIVE most_common(_, _)
most_common(order, count) ==
    IF order = <<>> THEN <<>>
    ELSE LET best == CHOOSE i \in DOMAIN order :
                        /\ \A j \in DOMAIN order : count[order[j]] <= count[order[i]]
                        /\ \A j \in 1..(i - 1) : count[order[j]] < count[order[i]]
         IN  <<order[best]>> \o
             most_common(SelectSeq(order, LAMBDA k : k # order[best]), count)

\* kmeans.cluster_centers_.astype(int): the mean of the cluster's pixels,
\* truncated
cluster_center(filtered, labels, k) ==
    LET members == {i \in DOMAIN filtered : labels[filtered[i].rgb] = k}
        total == Sum([i \in members |-> filtered[i].n], members)
        channel(ch) ==
            Sum([i \in members |-> filtered[i].rgb[ch] * filtered[i].n], members)
                \div total
    IN  <<channel(1), channel(2), channel(3)>>

\* round(x, 1) of x = num / den, in tenths: to the nearest tenth, a tie to
\* the even one
round1(num, den) ==
    LET q == (10 * num) \div den
        r == (10 * num) % den
    IN  IF 2 * r < den THEN q
        ELSE IF 2 * r > den THEN q + 1
        ELSE IF q % 2 = 0 THEN q ELSE q + 1

percentage_fraction(count, total) == round1(count, total)

\* round((count / len(labels)) * 100, 1)
percentage(count, total) == round1(count * 100, total)

\* a swatch of dominant_colors; count and cluster are the population and
\* the index of its cluster (-1 in the single-colour branch), which the code
\* does not return
Swatch(rgb, pct, count, cluster) ==
    [rgb |-> rgb, percentage |-> pct, count |-> count, cluster |-> cluster]

\* the branch n_colors > 1
kmeans_colors(filtered, labels) ==
    LET color_counts == Counter(filtered, labels)
        ranked == most_common(insertion_order(filtered, labels, Len(filtered)),
                              color_counts)
    IN  [r \in DOMAIN ranked |->
            Swatch(cluster_center(filtered, labels, ranked[r]),
                   percentage(color_counts[ranked[r]], len(filtered)),
                   color_counts[ranked[r]], ranked[r])]

\* the branch for a single pixel: np.mean(filtered_pixels, axis=0).astype(int)
single_color(filtered) ==
    <<Swatch(cluster_center(filtered, [c \in Distinct(filtered) |-> 0], 0), 1000,
             len(filtered), -1)>>

\* _analyze_color_temperature(np.mean(pixels, axis=0))
analyze_color_temperature(pixels) ==
    LET s(ch) == Sum([i \in DOMAIN pixels |-> pixels[i].rgb[ch] * pixels[i].n],
                     DOMAIN pixels)
    IN  IF s(1) > s(2) /\ s(1) > s(3) THEN "warm"
        ELSE IF s(3) > s(1) /\ s(3) > s(2) THEN "cool"
        ELSE "neutral"

\* _analyze_color_mood(dominant_colors)
analyze_color_mood(dominant_colors) ==
    IF dominant_colors = <<>> THEN "neutral"
    ELSE LET r == dominant_colors[1].rgb[1]
             g == dominant_colors[1].rgb[2]
             b == dominant_colors[1].rgb[3]
         IN  IF r > 150 /\ g < 100 /\ b < 100 THEN "energetic"
             ELSE IF g > 150 /\ r < 100 /\ b < 100 THEN "natural"
             ELSE IF b > 150 /\ r < 100 /\ g < 100 THEN "calm"
             ELSE IF r > 150 /\ g > 150 /\ b < 100 THEN "cheerful"
             ELSE IF r < 100 /\ g < 100 /\ b < 100 THEN "sophisticated"
             ELSE "balanced"

ColorsInit ==
    /\ colors \in {[pc |-> "called", pixels |-> p, filtered_pixels |-> <<>>,
                    dominant_colors |-> <<>>, color_temperature |-> "",
                    color_mood |-> "", color_diversity |-> 0] : p \in PixelArrays}
    /\ keys = {}
    /\ cache = <<>>
    /\ now = 0
    /\ call = [c \in Callers |-> Idle]
    /\ loop = 0
    /\ ncalls = 0
    /\ stats = [total_entries |-> 0, valid_entries |-> 0, expired_entries |-> 0]
    /\ image = NoImage
    /\ apc = "start"
    /\ results = <<>>
    /\ text = NotCalled
    /\ layout = NotCalled
    /\ minimal = NotCalled
    /\ template = NotCalled
    /\ preview = NotCalled
    /\ fonts = NotCalled
    /\ endpoint = NotCalled

\* pixels = image.reshape(-1, 3); mask; filtered_pixels
FilterPixels ==
    /\ colors.pc = "called"
    /\ colors' = [colors EXCEPT !.pc = "filtered",
                                !.filtered_pixels = filtered_pixels(colors.pixels)]
    /\ UNCHANGED nonColors

\* the rest of _analyze_colors, given its dominant_colors
ColorsReturn(dominant_colors) ==
    colors' = [colors EXCEPT !.pc = "returned",
                             !.dominant_colors = dominant_colors,
                             !.color_temperature = analyze_color_temperature(colors.pixels),
                             !.color_mood = analyze_color_mood(dominant_colors),
                             !.color_diversity = Len(dominant_colors)]

\* n_colors > 1: the palette of the k-means clusters
ClusterColors ==
    /\ colors.pc = "filtered"
    /\ n_colors(colors.filtered_pixels) > 1
    /\ \E labels \in KMeans(colors.filtered_pixels, n_colors(colors.filtered_pixels)) :
            ColorsReturn(kmeans_colors(colors.filtered_pixels, labels))
    /\ UNCHANGED nonColors

\* n_colors <= 1: the single colour
SingleColor ==
    /\ colors.pc = "filtered"
    /\ n_colors(colors.filtered_pixels) <= 1
    /\ ColorsReturn(single_color(colors.filtered_pixels))
    /\ UNCHANGED nonColors

ColorsNext ==
    \/ FilterPixels
    \/ ClusterColors
    \/ SingleColor

ColorsSpec == ColorsInit /\ [][ColorsNext]_vars

(***************************************************************************)
(* Part IV.  ImageAnalyzer._analyze_text                                   *)
(*                                                                         *)
(* pytesseract.image_to_data returns one entry per box: its text, its      *)
(* confidence (0..100, -1 for a box that is not a word) and its bounding   *)
(* box.  Rounded values are kept in tenths (average_font_size) and in      *)
(* hundredths (text_coverage).                                             *)
(***************************************************************************)
MaxBoxes == 2

\* image.size of the image given to the OCR
TextImageSize == <<100, 90>>

\* the words the OCR reads, with word.strip() and word.lower()
Words == {" ", "Sale", "Arial"}
strip(word) == IF word = " " THEN "" ELSE word
text_lower(word) == IF word = "Arial" THEN "arial" ELSE IF word = "Sale" THEN "sale" ELSE word

\* the patterns of __init__ that occur in a lower-case word of Words
serif_patterns(word) == {}
sans_serif_patterns(word) == IF word = "arial" THEN {"arial"} ELSE {}
script_patterns(word) == {}
display_patterns(word) == {}

Confidences == {-1, 30, 31, 49, 50}
BBoxes == {[x |-> 10, y |-> 0, width |-> 20, height |-> 10],
           [x |-> 10, y |-> 60, width |-> 20, height |-> 40]}

\* text_data, one record per index i
TextData ==
    UNION {[1..k -> [text : Words, conf : Confidences, bbox : BBoxes]] :
                k \in 0..MaxBoxes}

\* int(text_data['conf'][i]) > 30 and word
accept(box) == box.conf > 30 /\ strip(box.text) # ""

\* text_regions
text_regions(text_data) ==
    LET accepted == SelectSeq(text_data, accept)
    IN  [i \in DOMAIN accepted |->
            [text |-> strip(accepted[i].text), confidence |-> accepted[i].conf,
             bbox |-> accepted[i].bbox]]

\* the font category of one region
font_category(region) ==
    LET word == text_lower(region.text)
    IN  IF serif_patterns(word) # {} THEN "serif"
        ELSE IF sans_serif_patterns(word) # {} THEN "sans-serif"
        ELSE IF script_patterns(word) # {} THEN "script"
        ELSE IF display_patterns(word) # {} THEN "display"
        ELSE "unknown"

\* the keys of Counter(seq) in dict order: by first occurrence in seq
RECURSIVE counter_keys(_)
counter_keys(seq) ==
    IF seq = <<>> THEN <<>>
    ELSE LET before == counter_keys(SubSeq(seq, 1, Len(seq) - 1))
             k == seq[Len(seq)]
         IN  IF \E j \in DOMAIN before : before[j] = k THEN before
             ELSE Append(before, k)

Occurrences(seq, k) == Cardinality({i \in DOMAIN seq : seq[i] = k})

\* _analyze_fonts(text_regions, image); the dict returned for no region,
\* {"detected_fonts": [], "font_categories": []}, is the record with empty
\* set to TRUE
analyze_fonts(regions) ==
    IF regions = <<>>
    THEN [empty |-> TRUE, average_font_size |-> 0, font_size_range |-> <<0, 0>>,
          font_categories |-> <<>>, primary_font_category |-> "unknown"]
    ELSE LET font_sizes == [i \in DOMAIN regions |-> regions[i].bbox.height]
             font_categories == [i \in DOMAIN regions |-> font_category(regions[i])]
             sizes == {font_sizes[i] : i \in DOMAIN regions}
             order == counter_keys(font_categories)
             font_category_counts ==
                [k \in {font_categories[i] : i \in DOMAIN regions} |->
                    Occurrences(font_categories, k)]
         IN  [empty |-> FALSE,
              average_font_size |->
                 round1(Sum(font_sizes, DOMAIN regions), Len(regions)),
              font_size_range |->
                 <<CHOOSE m \in sizes : \A z \in sizes : m <= z,
                   CHOOSE m \in sizes : \A z \in sizes : m >= z>>,
              font_categories |-> font_category_counts,
              primary_font_category |-> most_common(order, font_category_counts)[1]]

\* _analyze_text_layout(text_regions, image.size)
analyze_text_layout(regions, image_size) ==
    IF regions = <<>>
    THEN [text_coverage |-> 0, text_distribution |-> "none", text_regions_count |-> 0]
    ELSE LET width == image_size[1]
             height == image_size[2]
             total_text_area ==
                Sum([i \in DOMAIN regions |->
                        regions[i].bbox.width * regions[i].bbox.height], DOMAIN regions)
             Count(Where(_)) == Cardinality({i \in DOMAIN regions : Where(regions[i].bbox.y)})
             top_count == Count(LAMBDA y : 3 * y < height)
             middle_count == Count(LAMBDA y : 3 * y >= height /\ 3 * y < 2 * height)
             bottom_count == Count(LAMBDA y : 3 * y >= 2 * height)
         IN  [text_coverage |-> round1(total_text_area * 100 * 10, width * height),
              text_distribution |->
                 IF top_count > middle_count /\ top_count > bottom_count
                 THEN "top-heavy"
                 ELSE IF bottom_count > middle_count /\ bottom_count > top_count
                 THEN "bottom-heavy"
                 ELSE IF middle_count > top_count /\ middle_count > bottom_count
                 THEN "center-focused"
                 ELSE "distributed",
              text_regions_count |-> Len(regions)]

TextInit ==
    /\ text \in {[pc |-> "called", text_data |-> t, raised |-> FALSE,
                  text_regions |-> <<>>, word_count |-> 0, has_text |-> FALSE,
                  font_analysis |-> analyze_fonts(<<>>),
                  text_layout |-> analyze_text_layout(<<>>, TextImageSize)] :
                    t \in TextData}
    /\ keys = {}
    /\ cache = <<>>
    /\ now = 0
    /\ call = [c \in Callers |-> Idle]
    /\ loop = 0
    /\ ncalls = 0
    /\ stats = [total_entries |-> 0, valid_entries |-> 0, expired_entries |-> 0]
    /\ image = NoImage
    /\ apc = "start"
    /\ results = <<>>
    /\ colors = NotCalled
    /\ layout = NotCalled
    /\ minimal = NotCalled
    /\ template = NotCalled
    /\ preview = NotCalled
    /\ fonts = NotCalled
    /\ endpoint = NotCalled

\* the try block of _analyze_text
TextReturns ==
    /\ text.pc = "called"
    /\ LET regions == text_regions(text.text_data)
       IN  text' = [text EXCEPT !.pc = "returned",
                                !.text_regions = regions,
                                !.word_count = Len(regions),
                                !.has_text = Len(regions) > 0,
                                !.font_analysis = analyze_fonts(regions),
                                !.text_layout =
                                    analyze_text_layout(regions, TextImageSize)]
    /\ UNCHANGED nonText

\* the except block: the OCR (or anything after it) raised, and the empty
\* result is returned; font_analysis and text_layout are then empty dicts
TextFails ==
    /\ text.pc = "called"
    /\ text' = [text EXCEPT !.pc = "returned", !.raised = TRUE]
    /\ UNCHANGED nonText

TextNext ==
    \/ TextReturns
    \/ TextFails

TextSpec == TextInit /\ [][TextNext]_vars

(***************************************************************************)
(* Part V.  ImageAnalyzer._analyze_rule_of_thirds and _analyze_symmetry    *)
(*                                                                         *)
(* A grey image or an edge map of height x width is a function of the row  *)
(* 0..height-1 and the column 0..width-1.  The entries of the edge map of  *)
(* cv2.Canny are 0 or 255.  A score is kept exact: a density is the        *)
(* fraction num / den, and a correlation coefficient is num / sqrt(den2),  *)
(* or NaN.                                                                 *)
(***************************************************************************)
MaxSide == 3

Shapes == (1..MaxSide) \X (1..MaxSide)

\* the arrays of a shape <<height, width>> with entries in levels
Arrays(shape, levels) == [0..(shape[1] - 1) -> [0..(shape[2] - 1) -> levels]]

Height(a) == Cardinality(DOMAIN a)
Width(a) == Cardinality(DOMAIN a[0])

\* the indices of the slice [start:stop] of an axis of length n
Slice(start, stop, n) ==
    LET from == IF start < 0 THEN Max(0, start + n) ELSE Min(start, n)
        to == IF stop < 0 THEN Max(0, stop + n) ELSE Min(stop, n)
    IN  from..(to - 1)

\* np.sum(a[rows, cols])
SumOver(a, rows, cols) ==
    Sum([c \in rows \X cols |-> a[c[1]][c[2]]], rows \X cols)

Fraction(num, den) == [num |-> num, den |-> den]

\* a > b for the fraction a and the decimal fraction b = bn / bd
Exceeds(a, bn, bd) == a.num * bd > bn * a.den

\* _analyze_rule_of_thirds(edges)
analyze_rule_of_thirds(edges) ==
    LET height == Height(edges)
        width == Width(edges)
        v_line1 == width \div 3
        v_line2 == (2 * width) \div 3
        h_line1 == height \div 3
        h_line2 == (2 * height) \div 3
        rows == 0..(height - 1)
        cols == 0..(width - 1)
        v1 == SumOver(edges, rows, Slice(v_line1 - 2, v_line1 + 3, width))
        v2 == SumOver(edges, rows, Slice(v_line2 - 2, v_line2 + 3, width))
        h1 == SumOver(edges, Slice(h_line1 - 2, h_line1 + 3, height), cols)
        h2 == SumOver(edges, Slice(h_line2 - 2, h_line2 + 3, height), cols)
        \* (v1/(5 height) + v2/(5 height) + h1/(5 width) + h2/(5 width)) / 4
        avg_density ==
            Fraction((v1 + v2) * width + (h1 + h2) * height, 20 * width * height)
        intersections ==
            <<<<v_line1, h_line1>>, <<v_line1, h_line2>>,
              <<v_line2, h_line1>>, <<v_line2, h_line2>>>>
        score(x, y) ==
            LET region_rows == Slice(Max(0, y - 10), Min(height, y + 11), height)
                region_cols == Slice(Max(0, x - 10), Min(width, x + 11), width)
            IN  Fraction(SumOver(edges, region_rows, region_cols),
                         Cardinality(region_rows) * Cardinality(region_cols))
        intersection_scores ==
            [i \in 1..4 |-> score(intersections[i][1], intersections[i][2])]
    IN  [line_alignment_score |-> avg_density,
         intersection_scores |-> intersection_scores,
         follows_rule |->
            \/ Exceeds(avg_density, 1, 10)
            \/ \E i \in 1..4 : Exceeds(intersection_scores[i], 2, 10)]

NaN == [nan |-> TRUE, num |-> 0, den2 |-> 0]
Coefficient(num, den2) == [nan |-> FALSE, num |-> num, den2 |-> den2]

RECURSIVE GCD(_, _)
GCD(a, b) == IF b = 0 THEN a ELSE GCD(b, a % b)

Abs(a) == IF a < 0 THEN -a ELSE a

\* np.corrcoef(x, y)[0, 1] of the vectors x and y over the indices I:
\* cov(x, y) / sqrt(var(x) var(y)), which is 0/0 = NaN when one of the
\* vectors is constant or empty; the fraction is kept in lowest terms
corrcoef(x, y, I) ==
    LET n == Cardinality(I)
        sx == Sum(x, I)
        sy == Sum(y, I)
        cov == n * Sum([i \in I |-> x[i] * y[i]], I) - sx * sy
        var_x == n * Sum([i \in I |-> x[i] * x[i]], I) - sx * sx
        var_y == n * Sum([i \in I |-> y[i] * y[i]], I) - sy * sy
        g == GCD(GCD(var_x, var_y), Abs(cov))
    IN  IF var_x = 0 \/ var_y = 0 THEN NaN
        ELSE Coefficient(cov \div g, (var_x \div g) * (var_y \div g))

\* a correlation coefficient r > 0.7 (false of NaN)
Above07(r) == ~r.nan /\ r.num > 0 /\ 100 * r.num * r.num > 49 * r.den2

nan_kept(r) == r

\* r if not np.isnan(r) else 0.0
nan_to_zero(r) == IF ~r.nan THEN r ELSE Coefficient(0, 1)

\* max(a, b) > 0.7 of Python: max returns a unless b > a, so a NaN first
\* argument is returned and a NaN second argument is ignored
max_above_07(a, b) ==
    IF a.nan THEN FALSE
    ELSE IF b.nan THEN Above07(a)
    ELSE Above07(a) \/ Above07(b)

\* _analyze_symmetry(gray)
analyze_symmetry(gray) ==
    LET height == Height(gray)
        width == Width(gray)
        \* left_half = gray[:, :width//2], right_half = fliplr(gray[:, width//2:]),
        \* both cut to min_width columns and flattened
        min_width == Min(width \div 2, width - width \div 2)
        LR == (0..(height - 1)) \X (0..(min_width - 1))
        left_half == [c \in LR |-> gray[c[1]][c[2]]]
        right_half == [c \in LR |-> gray[c[1]][width - 1 - c[2]]]
        vertical_symmetry == corrcoef(left_half, right_half, LR)
        \* top_half = gray[:height//2, :], bottom_half = flipud(gray[height//2:, :])
        min_height == Min(height \div 2, height - height \div 2)
        TB == (0..(min_height - 1)) \X (0..(width - 1))
        top_half == [c \in TB |-> gray[c[1]][c[2]]]
        bottom_half == [c \in TB |-> gray[height - 1 - c[1]][c[2]]]
        horizontal_symmetry == corrcoef(top_half, bottom_half, TB)
    IN  [vertical_symmetry |-> nan_to_zero(vertical_symmetry),
         horizontal_symmetry |-> nan_to_zero(horizontal_symmetry),
         is_symmetric |-> max_above_07(vertical_symmetry, horizontal_symmetry)]

LayoutInit ==
    /\ \E shape \in Shapes, fn \in {"rule_of_thirds", "symmetry"} :
            \E arg \in Arrays(shape, {0, 255}) :
                layout = [pc |-> "called", fn |-> fn, arg |-> arg]
    /\ keys = {}
    /\ cache = <<>>
    /\ now = 0
    /\ call = [c \in Callers |-> Idle]
    /\ loop = 0
    /\ ncalls = 0
    /\ stats = [total_entries |-> 0, valid_entries |-> 0, expired_entries |-> 0]
    /\ image = NoImage
    /\ apc = "start"
    /\ results = <<>>
    /\ colors = NotCalled
    /\ text = NotCalled
    /\ minimal = NotCalled
    /\ template = NotCalled
    /\ preview = NotCalled
    /\ fonts = NotCalled
    /\ endpoint = NotCalled

AnalyzeRuleOfThirds ==
    /\ layout.pc = "called"
    /\ layout.fn = "rule_of_thirds"
    /\ layout' = [pc |-> "returned", fn |-> layout.fn, arg |-> layout.arg,
                  result |-> analyze_rule_of_thirds(layout.arg)]
    /\ UNCHANGED nonLayout

AnalyzeSymmetry ==
    /\ layout.pc = "called"
    /\ layout.fn = "symmetry"
    /\ layout' = [pc |-> "returned", fn |-> layout.fn, arg |-> layout.arg,
                  result |-> analyze_symmetry(layout.arg)]
    /\ UNCHANGED nonLayout

LayoutNext ==
    \/ AnalyzeRuleOfThirds
    \/ AnalyzeSymmetry

LayoutSpec == LayoutInit /\ [][LayoutNext]_vars

(***************************************************************************)
(* Part VI.  The minimal analyze endpoint (src/main_minimal.py)            *)
(*                                                                         *)
(* A request is the upload's content type, the length of its content and   *)
(* what the content decodes to: the size of the image and the colours of   *)
(* its 100x100 resample, as the number of pixels of each colour.  A        *)
(* colour is its index in the lexicographic order of the colours, the      *)
(* order of np.unique; '#ffffff' is White.  The analysis_id, a fresh uuid, *)
(* is left out of the response.                                            *)
(***************************************************************************)
MaxColours == 6

MAX_FILE_SIZE == 10 * 1024 * 1024
ALLOWED_IMAGE_TYPES == {"image/jpeg", "image/png", "image/webp"}

ContentTypes == {"image/png", "image/gif"}
ContentLengths == {MAX_FILE_SIZE, MAX_FILE_SIZE + 1}
UploadSizes == {<<1000, 1500>>, <<50, 50>>}
White == 0

\* the pixels of the 100x100 resample by colour: 100 * 100 pixels in all
Resamples ==
    UNION {{h \in [1..d -> {1000, 2000, 3000, 4000, 5000, 10000}] :
                Sum(h, 1..d) = 100 * 100} : d \in 1..MaxColours}

\* np.argsort(counts): the indices in an order of non-decreasing count
RECURSIVE argsort(_, _)
argsort(counts, S) ==
    IF S = {} THEN {<<>>}
    ELSE UNION {{<<i>> \o rest : rest \in argsort(counts, S \ {i})} :
                    i \in {j \in S : \A k \in S : counts[j] <= counts[k]}}

top_colors_least(order) == SubSeq(order, 1, Min(5, Len(order)))

\* unique_colors[np.argsort(counts)[-5:]]
top_colors(order) == SubSeq(order, Max(1, Len(order) - 4), Len(order))

\* the JSON content of the response of a completed analysis
MinimalAnalysis(colours, width, height) ==
    [success |-> TRUE,
     colors |-> colours,
     fonts |-> <<>>,
     text_elements |-> <<>>,
     image_regions |-> <<>>,
     layout_structure |-> [layout_regions |-> <<>>,
                           grid_analysis |-> [grid_detected |-> FALSE],
                           layout_type |-> "simple"],
     background_info |-> [background_color |-> White,
                          background_type |-> "solid",
                          background_variance |-> 0],
     dimensions |-> [width |-> width, height |-> height],
     analysis_complete |-> TRUE]

NoContent == [success |-> FALSE]

MinimalInit ==
    /\ \E t \in ContentTypes, n \in ContentLengths, decodable \in BOOLEAN,
          size \in UploadSizes, resample \in Resamples, numpy \in BOOLEAN :
            minimal = [pc |-> "called", content_type |-> t, length |-> n,
                       decodable |-> decodable, size |-> size,
                       resample |-> resample, numpy |-> numpy,
                       colors |-> <<>>, status |-> 0, content |-> NoContent]
    /\ keys = {}
    /\ cache = <<>>
    /\ now = 0
    /\ call = [c \in Callers |-> Idle]
    /\ loop = 0
    /\ ncalls = 0
    /\ stats = [total_entries |-> 0, valid_entries |-> 0, expired_entries |-> 0]
    /\ image = NoImage
    /\ apc = "start"
    /\ results = <<>>
    /\ colors = NotCalled
    /\ text = NotCalled
    /\ layout = NotCalled
    /\ template = NotCalled
    /\ preview = NotCalled
    /\ fonts = NotCalled
    /\ endpoint = NotCalled

Respond(status, content) ==
    minimal' = [minimal EXCEPT !.pc = "responded", !.status = status,
                               !.content = content]

\* the file type and the file size are validated
ValidateFile ==
    /\ minimal.pc = "called"
    /\ IF minimal.content_type \notin ALLOWED_IMAGE_TYPES
       THEN Respond(400, NoContent)
       ELSE IF minimal.length > MAX_FILE_SIZE
       THEN Respond(400, NoContent)
       ELSE minimal' = [minimal EXCEPT !.pc = "load"]
    /\ UNCHANGED nonMinimal

\* Image.open, image.size, image.resize((100, 100)).convert('RGB'): a file
\* that does not decode raises, which is answered with status 500
LoadUpload ==
    /\ minimal.pc = "load"
    /\ IF minimal.decodable
       THEN minimal' = [minimal EXCEPT !.pc = "colors"]
       ELSE Respond(500, NoContent)
    /\ UNCHANGED nonMinimal

\* the colour extraction with numpy
ExtractColors ==
    /\ minimal.pc = "colors"
    /\ minimal.numpy
    /\ \E order \in argsort(minimal.resample, DOMAIN minimal.resample) :
            LET top == top_colors(order)
            IN  minimal' = [minimal EXCEPT
                    !.pc = "return",
                    !.colors = [i \in DOMAIN top |->
                                    [type |-> "dominant", color |-> top[i],
                                     index |-> i - 1]]]
    /\ UNCHANGED nonMinimal

\* `except:` around the colour extraction (numpy cannot be imported)
ColorsFallback ==
    /\ minimal.pc = "colors"
    /\ ~minimal.numpy
    /\ minimal' = [minimal EXCEPT
            !.pc = "return",
            !.colors = <<[type |-> "fallback", color |-> White, index |-> 0]>>]
    /\ UNCHANGED nonMinimal

\* return JSONResponse(content={...})
ReturnAnalysis ==
    /\ minimal.pc = "return"
    /\ Respond(200, MinimalAnalysis(minimal.colors, minimal.size[1], minimal.size[2]))
    /\ UNCHANGED nonMinimal

MinimalNext ==
    \/ ValidateFile
    \/ LoadUpload
    \/ ExtractColors
    \/ ColorsFallback
    \/ ReturnAnalysis

MinimalSpec == MinimalInit /\ [][MinimalNext]_vars

(***************************************************************************)
(* Part VII.  TemplateGenerator.create_template                            *)
(*                                                                         *)
(* A dict is a function of its keys, and d.get(k, default) is Get.  A list *)
(* element that is not a dict is NotADict.  The SVG text is kept as the    *)
(* sequence of its elements, in the order in which they are appended to    *)
(* svg_content; an element carries the attributes written for it and, as   *)
(* role, the function that wrote it.                                       *)
(***************************************************************************)
MaxElements == 2
MaxCreations == 2

Get(dict, key, default) == IF key \in DOMAIN dict THEN dict[key] ELSE default

NotADict == [not_a_dict |-> TRUE]
IsDict(x) == "not_a_dict" \notin DOMAIN x
EmptyDict == [k \in {} |-> 0]

\* the styles of __init__ (colour, font family and border radius)
template_styles ==
    [modern |-> [background_color |-> "#FFFFFF", primary_color |-> "#2196F3",
                 text_color |-> "#333333", font_family |-> "Arial",
                 border_radius |-> 8],
     minimal |-> [background_color |-> "#F8F9FA", primary_color |-> "#6C757D",
                  text_color |-> "#212529", font_family |-> "Helvetica",
                  border_radius |-> 0],
     vibrant |-> [background_color |-> "#FF6B6B", primary_color |-> "#4ECDC4",
                  text_color |-> "#FFFFFF", font_family |-> "Impact",
                  border_radius |-> 15]]

\* "retro" is not a style of __init__ and falls back to "modern"
StyleNames == {"vibrant", "retro"}
Dimensions == {<<800, 600>>, <<400, 300>>}

\* the text elements, image regions and layout structures of an analysis
TextElements ==
    {[content |-> "Sale", bbox |-> <<50, 50, 250, 90>>],
     [bbox |-> <<>>],
     EmptyDict,
     NotADict}
ImageRegions ==
    {[bbox |-> <<100, 100, 300, 300>>, type |-> "photo"],
     [bbox |-> <<0, 0, 100>>],
     EmptyDict,
     NotADict}
LayoutStructures == {EmptyDict, [has_border |-> TRUE], [has_border |-> FALSE]}

Lists(S) == UNION {[1..k -> S] : k \in 0..MaxElements}

\* f"{{TEXT_{i}}}" and f"{{IMAGE_{i}}}"
Tag(kind, i) == "{" \o kind \o "_" \o ToString(i) \o "}"

\* _estimate_font_size(bbox): 16 when bbox[3] - bbox[1] raises
estimate_font_size(bbox) ==
    IF Len(bbox) < 4 THEN 16
    ELSE Max(12, Min(48, (7 * (bbox[4] - bbox[2])) \div 10))

text_tag_constant(i) == "{TEXT}"

text_tag(i) == Tag("TEXT", i)
image_tag(i) == Tag("IMAGE", i)

\* _process_text_elements(text_elements)
process_text_elements(text_elements) ==
    [i \in DOMAIN text_elements |->
        LET element == text_elements[i]
        IN  [id |-> "text_" \o ToString(i),
             content |-> Get(element, "content", "Text Element " \o ToString(i)),
             bbox |-> Get(element, "bbox", <<0, 0, 100, 20>>),
             confidence |-> Get(element, "confidence", 8),
             font_size |-> estimate_font_size(Get(element, "bbox", <<0, 0, 100, 20>>)),
             placeholder_tag |-> text_tag(i),
             suggested_placeholder |-> Get(element, "suggested_placeholder", text_tag(i))]]

\* _process_image_regions(image_regions)
process_image_regions(image_regions) ==
    [i \in DOMAIN image_regions |->
        LET region == image_regions[i]
        IN  [id |-> "image_" \o ToString(i),
             bbox |-> Get(region, "bbox", <<0, 0, 100, 100>>),
             type |-> Get(region, "type", "placeholder"),
             placeholder_tag |-> image_tag(i),
             suggested_content |-> Get(region, "suggested_content", "Image placeholder")]]

\* the 15 common placeholders of _generate_placeholders
common_placeholders ==
    {"{TITLE}", "{SUBTITLE}", "{DESCRIPTION}", "{AUTHOR}", "{DATE}",
     "{CATEGORY}", "{TAG}", "{QUOTE}", "{CTA_TEXT}", "{PRICE}",
     "{DOMAIN}", "{SITE_NAME}", "{BRAND_NAME}", "{URL}", "{USERNAME}"}

\* _generate_placeholders(text_elements, image_regions), as the set that is
\* sorted into the list
generate_placeholders(text_elements, image_regions) ==
    {text_tag(i) : i \in DOMAIN text_elements}
        \cup {image_tag(i) : i \in DOMAIN image_regions}
        \cup common_placeholders

\* an element of a list makes element.get(...) raise
Raising(list) == \E i \in DOMAIN list : ~IsDict(list[i])

\* _create_content_mapping(analysis): {} when processing raises.  The colour
\* palette, font suggestions and background info of the mapping are not
\* read when the SVG is written and are left out.
create_content_mapping(analysis) ==
    IF Raising(analysis.text_elements) \/ Raising(analysis.image_regions)
    THEN EmptyDict
    ELSE [text_elements |-> process_text_elements(analysis.text_elements),
          image_regions |-> process_image_regions(analysis.image_regions),
          layout_structure |-> analysis.layout_structure,
          placeholders |->
              generate_placeholders(analysis.text_elements, analysis.image_regions)]

Rect(role, x, y, width, height, fill, stroke) ==
    [tag |-> "rect", role |-> role, x |-> x, y |-> y, width |-> width,
     height |-> height, fill |-> fill, stroke |-> stroke, content |-> ""]
TextElement(role, x, y, font_size, fill, content) ==
    [tag |-> "text", role |-> role, x |-> x, y |-> y, width |-> 0,
     height |-> font_size, fill |-> fill, stroke |-> "", content |-> content]

\* _add_background(style_config, width, height)
add_background(style_config, width, height) ==
    <<Rect("background", 0, 0, width, height, style_config.background_color, "")>>

\* _add_image_placeholders raises for a bbox that is not of 4 entries
image_placeholders_raise(image_regions) ==
    \E i \in DOMAIN image_regions : Len(image_regions[i].bbox) # 4

\* _add_image_placeholders(image_regions, style_config): for every region
\* the dashed rectangle and the text with its tag
RECURSIVE add_image_placeholders(_)
add_image_placeholders(image_regions) ==
    IF image_regions = <<>> THEN <<>>
    ELSE LET n == Len(image_regions)
             region == image_regions[n]
             bbox == region.bbox
             x == bbox[1]
             y == bbox[2]
             width == bbox[3] - x
             height == bbox[4] - y
         IN  add_image_placeholders(SubSeq(image_regions, 1, n - 1)) \o
             <<Rect("image", x, y, width, height, "#e0e0e0", "#cccccc"),
               TextElement("image", x + width \div 2, y + height \div 2,
                           Min(16, height \div 4), "#666666",
                           region.placeholder_tag)>>

\* _add_text_elements raises for a bbox of fewer than 2 entries
text_elements_raise(text_elements) ==
    \E i \in DOMAIN text_elements : Len(text_elements[i].bbox) < 2

\* _add_text_elements(text_elements, style_config)
add_text_elements(text_elements, style_config) ==
    [i \in DOMAIN text_elements |->
        LET element == text_elements[i]
        IN  TextElement("text", element.bbox[1], element.bbox[2] + element.font_size,
                        element.font_size, style_config.text_color,
                        element.placeholder_tag)]

\* _add_layout_elements(layout_structure, style_config)
add_layout_elements(layout_structure, style_config) ==
    IF Get(layout_structure, "has_border", FALSE)
    THEN <<Rect("border", 10, 10, 780, 580, "none", style_config.primary_color)>>
    ELSE <<>>

\* the SVG returned by `except Exception` of _create_svg_template
error_svg ==
    [width |-> 800, height |-> 600,
     elements |-> <<Rect("background", 0, 0, 800, 600, "#FFFFFF", ""),
                    TextElement("error", 400, 300, 24, "#333333",
                                "Template Generation Error")>>]

extract_text_placeholders_only(content_mapping) ==
    LET text_elements == Get(content_mapping, "text_elements", <<>>)
    IN  [i \in DOMAIN text_elements |->
            [type |-> "text", id |-> "TEXT_" \o ToString(i), tag |-> Tag("TEXT", i),
             bbox |-> text_elements[i].bbox]]

\* _extract_placeholders_from_mapping(content_mapping)
extract_placeholders_from_mapping(content_mapping) ==
    LET text_elements == Get(content_mapping, "text_elements", <<>>)
        image_regions == Get(content_mapping, "image_regions", <<>>)
    IN  [i \in DOMAIN text_elements |->
            [type |-> "text", id |-> "TEXT_" \o ToString(i), tag |-> Tag("TEXT", i),
             bbox |-> text_elements[i].bbox]]
        \o
        [i \in DOMAIN image_regions |->
            [type |-> "image", id |-> "IMAGE_" \o ToString(i), tag |-> Tag("IMAGE", i),
             bbox |-> image_regions[i].bbox]]

NoSvg == [width |-> 0, height |-> 0, elements |-> <<>>]

svg_order_text_first == <<"background", "text", "images", "layout", "save">>

\* the statements of _create_svg_template, in the order of its body, and
\* then the writing of the file
svg_order == <<"background", "images", "text", "layout", "save">>
svg_after(step) == svg_order[(CHOOSE i \in DOMAIN svg_order : svg_order[i] = step) + 1]
NoTemplate == [status |-> "none"]

TemplateInit ==
    /\ \E texts \in Lists(TextElements), images \in Lists(ImageRegions),
          layout_structure \in LayoutStructures, style \in StyleNames,
          dimensions \in Dimensions :
            template = [pc |-> "called",
                        analysis |-> [text_elements |-> texts,
                                      image_regions |-> images,
                                      layout_structure |-> layout_structure],
                        style |-> style,
                        dimensions |-> dimensions,
                        style_config |-> template_styles["modern"],
                        content_mapping |-> EmptyDict,
                        svg |-> NoSvg,
                        result |-> NoTemplate,
                        previous |-> NoTemplate,
                        creations |-> 1]
    /\ keys = {}
    /\ cache = <<>>
    /\ now = 0
    /\ call = [c \in Callers |-> Idle]
    /\ loop = 0
    /\ ncalls = 0
    /\ stats = [total_entries |-> 0, valid_entries |-> 0, expired_entries |-> 0]
    /\ image = NoImage
    /\ apc = "start"
    /\ results = <<>>
    /\ colors = NotCalled
    /\ text = NotCalled
    /\ layout = NotCalled
    /\ minimal = NotCalled
    /\ preview = NotCalled
    /\ fonts = NotCalled
    /\ endpoint = NotCalled

\* style_config = self.template_styles.get(style, self.template_styles["modern"])
\* and content_mapping = self._create_content_mapping(analysis)
CreateContentMapping ==
    /\ template.pc = "called"
    /\ template' = [template EXCEPT
            !.pc = svg_order[1],
            !.style_config = Get(template_styles, template.style,
                                 template_styles["modern"]),
            !.content_mapping = create_content_mapping(template.analysis)]
    /\ UNCHANGED nonTemplate

\* svg_content = '<svg width=... height=...>' + self._add_background(...)
AddBackground ==
    /\ template.pc = "background"
    /\ template' = [template EXCEPT
            !.pc = svg_after("background"),
            !.svg = [width |-> template.dimensions[1],
                     height |-> template.dimensions[2],
                     elements |-> add_background(template.style_config,
                                                 template.dimensions[1],
                                                 template.dimensions[2])]]
    /\ UNCHANGED nonTemplate

\* what _create_svg_template appends in a step, or the error SVG that
\* replaces all of it when the step raises
Append_or_fail(raises, elements, next) ==
    template' = [template EXCEPT
        !.pc = IF raises THEN "save" ELSE next,
        !.svg = IF raises THEN error_svg
                ELSE [template.svg EXCEPT !.elements = @ \o elements]]

AddImagePlaceholders ==
    /\ template.pc = "images"
    /\ LET image_regions == Get(template.content_mapping, "image_regions", <<>>)
       IN  IF image_placeholders_raise(image_regions)
           THEN Append_or_fail(TRUE, <<>>, svg_after("images"))
           ELSE Append_or_fail(FALSE, add_image_placeholders(image_regions),
                               svg_after("images"))
    /\ UNCHANGED nonTemplate

AddTextElements ==
    /\ template.pc = "text"
    /\ LET text_elements == Get(template.content_mapping, "text_elements", <<>>)
       IN  IF text_elements_raise(text_elements)
           THEN Append_or_fail(TRUE, <<>>, svg_after("text"))
           ELSE Append_or_fail(FALSE,
                               add_text_elements(text_elements, template.style_config),
                               svg_after("text"))
    /\ UNCHANGED nonTemplate

AddLayoutElements ==
    /\ template.pc = "layout"
    /\ Append_or_fail(FALSE,
                      add_layout_elements(
                          Get(template.content_mapping, "layout_structure", EmptyDict),
                          template.style_config),
                      svg_after("layout"))
    /\ UNCHANGED nonTemplate

\* the template file is written and the template returned
SaveTemplate ==
    /\ template.pc = "save"
    /\ template' = [template EXCEPT
            !.pc = "returned",
            !.result = [status |-> "success",
                        svg_content |-> template.svg,
                        analysis |-> template.content_mapping,
                        placeholders |->
                            extract_placeholders_from_mapping(template.content_mapping)]]
    /\ UNCHANGED nonTemplate

\* os.makedirs or open fails: raise Exception("Template generation failed")
SaveTemplateFails ==
    /\ template.pc = "save"
    /\ template' = [template EXCEPT !.pc = "raised"]
    /\ UNCHANGED nonTemplate

\* create_template is called again with the same analysis, style and size
CreateTemplateAgain ==
    /\ template.pc = "returned"
    /\ template.creations < MaxCreations
    /\ template' = [template EXCEPT
            !.pc = "called",
            !.content_mapping = EmptyDict,
            !.svg = NoSvg,
            !.result = NoTemplate,
            !.previous = template.result,
            !.creations = @ + 1]
    /\ UNCHANGED nonTemplate

TemplateNext ==
    \/ CreateContentMapping
    \/ AddBackground
    \/ AddImagePlaceholders
    \/ AddTextElements
    \/ AddLayoutElements
    \/ SaveTemplate
    \/ SaveTemplateFails
    \/ CreateTemplateAgain

TemplateSpec == TemplateInit /\ [][TemplateNext]_vars

(***************************************************************************)
(* Part VIII.  PreviewGenerator.create_preview                             *)
(*                                                                         *)
(* The files are a function of their paths.  A template file is an SVG     *)
(* document: its svg element with or without the xmlns declaration and its *)
(* elements.  The raster is kept as the sequence of the drawing operations *)
(* made on it (equal operations in equal order give equal pixels); the     *)
(* position of a centred text depends on the font metrics and is kept as   *)
(* the box it is centred in.                                               *)
(***************************************************************************)
MaxRegions == 2
MaxRenders == 2

\* self.sample_content of __init__
sample_content ==
    ("{TITLE}" :> "Sample Title") @@ ("{SUBTITLE}" :> "Sample Subtitle")
    @@ ("{DESCRIPTION}" :> "Sample Description Text")
    @@ ("{AUTHOR}" :> "Sample Author") @@ ("{DATE}" :> "Sample Date")
    @@ ("{CATEGORY}" :> "Sample Category") @@ ("{TAG}" :> "Sample Tag")
    @@ ("{QUOTE}" :> "Sample Quote") @@ ("{CTA_TEXT}" :> "Click Here")
    @@ ("{PRICE}" :> "$99") @@ ("{DOMAIN}" :> "sample.com")
    @@ ("{SITE_NAME}" :> "Sample Website") @@ ("{BRAND_NAME}" :> "Sample Brand")
    @@ ("{URL}" :> "www.sample.com") @@ ("{USERNAME}" :> "@sampleuser")
    @@ ("{USER_HANDLE}" :> "@sample") @@ ("{FOLLOWERS}" :> "1.2K")
    @@ ("{LIKES}" :> "456") @@ ("{SHARES}" :> "123") @@ ("{VIEWS}" :> "2.3K")
    @@ ("{RATING}" :> "4.5") @@ ("{PERCENTAGE}" :> "85%") @@ ("{NUMBER}" :> "42")

\* _create_svg_template(content_mapping, style_config, dimensions) as one
\* function, and the document written to the template file: the svg element
\* of create_template declares xmlns="http://www.w3.org/2000/svg"
create_svg_template(content_mapping, style_config, dimensions) ==
    LET image_regions == Get(content_mapping, "image_regions", <<>>)
        text_elements == Get(content_mapping, "text_elements", <<>>)
    IN  IF image_placeholders_raise(image_regions) \/ text_elements_raise(text_elements)
        THEN error_svg
        ELSE [width |-> dimensions[1], height |-> dimensions[2],
              elements |->
                  add_background(style_config, dimensions[1], dimensions[2])
                  \o add_image_placeholders(image_regions)
                  \o add_text_elements(text_elements, style_config)
                  \o add_layout_elements(
                         Get(content_mapping, "layout_structure", EmptyDict),
                         style_config)]

Document(xmlns, svg) == [xmlns |-> xmlns, svg |-> svg]

created_template(analysis, style, dimensions) ==
    Document(TRUE,
             create_svg_template(create_content_mapping(analysis),
                                 Get(template_styles, style, template_styles["modern"]),
                                 dimensions))

\* an SVG document that is not written by create_template and declares no
\* namespace
plain_template ==
    Document(FALSE,
             [width |-> 800, height |-> 600,
              elements |-> <<Rect("background", 0, 0, 800, 600, "#FFFFFF", ""),
                             TextElement("text", 40, 80, 24, "#333333", "{TITLE}"),
                             TextElement("text", 40, 120, 16, "#333333", "Hello"),
                             Rect("border", 10, 10, 780, 580, "none", "#2196F3")>>])

\* the image regions of the analysis given to create_preview
PreviewRegions ==
    {[bbox |-> <<100, 100, 300, 300>>, type |-> "real_photo"],
     [bbox |-> <<400, 100, 700, 300>>],
     [type |-> "logo"],
     [bbox |-> <<0, 0, 100>>, type |-> "real_photo"]}
PreviewTexts == {<<>>, <<[content |-> "Sale", bbox |-> <<50, 50, 250, 90>>]>>}

\* what happens to the stock photo of a region: it is obtained, or there is
\* no URL, a network error, a response other than 200, a file that does not
\* open, or a file that opens and fails to decode when it is resized
Outcomes == {"image", "no_url", "network_error", "non_200", "open_error", "resize_error"}
Unused == "unused"

TemplateNames == {"My Pin", "a/b"}

element_tag_local(tag, xmlns) == tag

\* the tag ElementTree gives to an element: "{namespace}tag" under a default
\* namespace
element_tag(tag, xmlns) ==
    IF xmlns THEN "{http://www.w3.org/2000/svg}" \o tag ELSE tag

\* ET.fromstring(svg_content)
fromstring(document) ==
    [width |-> document.svg.width, height |-> document.svg.height,
     elements |-> [i \in DOMAIN document.svg.elements |->
                      [document.svg.elements[i] EXCEPT
                          !.tag = element_tag(@, document.xmlns)]]]

\* svg_root.iter(tag): the elements whose tag is exactly tag
iter(svg_root, tag) == SelectSeq(svg_root.elements, LAMBDA e : e.tag = tag)

NoColor == ""
\* _extract_background_color(svg_root)
extract_background_color(svg_root) ==
    LET rects == iter(svg_root, "rect")
        full == {i \in DOMAIN rects :
                    /\ rects[i].x = 0 /\ rects[i].y = 0
                    /\ rects[i].width = svg_root.width
                    /\ rects[i].height = svg_root.height
                    /\ rects[i].fill \notin {"", "none"}}
    IN  IF full = {} THEN NoColor
        ELSE rects[CHOOSE i \in full : \A j \in full : i <= j].fill

\* a drawing operation on the raster
Draw(pass, op, box, fill, outline, string) ==
    [pass |-> pass, op |-> op, box |-> box, fill |-> fill, outline |-> outline,
     text |-> string]

\* _get_stock_image(width, height): the image, or None
get_stock_image(outcome) == outcome \in {"image", "resize_error"}

\* one turn of the loop of _render_image_placeholders: the operations drawn
\* for the region, and whether the turn raises
render_image_region(region, i, outcome) ==
    IF "bbox" \notin DOMAIN region THEN [raises |-> FALSE, drawn |-> <<>>]
    ELSE IF Len(region.bbox) # 4 THEN [raises |-> TRUE, drawn |-> <<>>]
    ELSE IF Get(region, "type", "unknown") = "real_photo"
    THEN IF get_stock_image(outcome)
         THEN IF outcome = "resize_error"
              THEN [raises |-> TRUE, drawn |-> <<>>]
              ELSE [raises |-> FALSE,
                    drawn |-> <<Draw("image", "rectangle", region.bbox,
                                     "#4CAF50", "#45a049", ""),
                                Draw("image", "text", region.bbox,
                                     "white", "", "Stock Photo")>>]
         ELSE [raises |-> FALSE,
               drawn |-> <<Draw("image", "rectangle", region.bbox,
                                "#2196F3", "#1976D2", "")>>]
    ELSE [raises |-> FALSE,
          drawn |-> <<Draw("image", "rectangle", region.bbox, "#e0e0e0", "#cccccc", ""),
                      Draw("image", "dashes", region.bbox, "#cccccc", "", ""),
                      Draw("image", "text", region.bbox, "#666666", "",
                           Get(region, "placeholder_tag", image_tag(i)))>>]

\* _render_text_elements(draw, svg_root)
render_text_elements(svg_root) ==
    LET texts == iter(svg_root, "text")
    IN  [i \in DOMAIN texts |->
            Draw("text", "text", <<texts[i].x, texts[i].y, texts[i].x, texts[i].y>>,
                 texts[i].fill, "",
                 Get(sample_content, texts[i].content, texts[i].content))]

\* _render_decorative_elements(draw, svg_root): a rectangle is passed over
\* when its fill is one of three colours or it has a stroke-dasharray (of
\* the rectangles of create_template only that of an image placeholder)
RECURSIVE render_decorative_elements(_)
render_decorative_elements(rects) ==
    IF rects = <<>> THEN <<>>
    ELSE LET rect == Head(rects)
             box == <<rect.x, rect.y, rect.x + rect.width, rect.y + rect.height>>
             filled == IF rect.fill \notin {"none", ""}
                       THEN <<Draw("decorative", "rectangle", box, rect.fill, "", "")>>
                       ELSE <<>>
             border == IF rect.stroke \notin {"none", ""}
                       THEN <<Draw("decorative", "rectangle", box, "", rect.stroke, "")>>
                       ELSE <<>>
         IN  (IF rect.fill \in {"#e0e0e0", "#4CAF50", "#2196F3"} \/ rect.role = "image"
              THEN <<>>
              ELSE filled \o border)
             \o render_decorative_elements(Tail(rects))

\* _sanitize_filename(template_name), on the names of TemplateNames
sanitize_filename(template_name) ==
    CASE template_name = "My Pin" -> "my-pin"
      [] template_name = "a/b" -> "a_b"

preview_path_of_template(template_path, template_name) == template_path

\* preview_path = f"previews/{preview_filename}"
preview_path(template_path, template_name) ==
    "previews/" \o sanitize_filename(template_name) \o ".jpg"

TemplatePath == "templates/template.svg"
NoFile == [missing |-> TRUE]
NoRoot == [width |-> 0, height |-> 0, elements |-> <<>>]
Paths == {TemplatePath} \cup {preview_path(TemplatePath, n) : n \in TemplateNames}

PreviewInit ==
    /\ \E regions \in UNION {[1..k -> PreviewRegions] : k \in 0..MaxRegions},
          texts \in PreviewTexts, has_border \in BOOLEAN,
          style \in {"modern", "minimal", "vibrant"}, kind \in {"created", "plain", "missing"},
          template_name \in TemplateNames :
         \E outcomes \in [DOMAIN regions -> Outcomes \cup {Unused}] :
            /\ \A i \in DOMAIN regions :
                   outcomes[i] = Unused <=>
                       ~("bbox" \in DOMAIN regions[i]
                           /\ Get(regions[i], "type", "unknown") = "real_photo")
            /\ kind # "created" => (texts = <<>> /\ ~has_border /\ style = "modern")
            /\ LET analysis == [text_elements |-> texts, image_regions |-> regions,
                                layout_structure |-> [has_border |-> has_border]]
                   document ==
                       CASE kind = "created" -> created_template(analysis, style, <<800, 600>>)
                         [] kind = "plain" -> plain_template
                         [] kind = "missing" -> NoFile
               IN  preview = [pc |-> "called",
                              files |-> [f \in Paths |->
                                            IF f = TemplatePath THEN document ELSE NoFile],
                              template_path |-> TemplatePath,
                              template_name |-> template_name,
                              analysis |-> analysis,
                              outcomes |-> outcomes,
                              svg_root |-> NoRoot,
                              raster |-> <<>>,
                              i |-> 1,
                              previous |-> <<>>,
                              renders |-> 1]
    /\ keys = {}
    /\ cache = <<>>
    /\ now = 0
    /\ call = [c \in Callers |-> Idle]
    /\ loop = 0
    /\ ncalls = 0
    /\ stats = [total_entries |-> 0, valid_entries |-> 0, expired_entries |-> 0]
    /\ image = NoImage
    /\ apc = "start"
    /\ results = <<>>
    /\ colors = NotCalled
    /\ text = NotCalled
    /\ layout = NotCalled
    /\ minimal = NotCalled
    /\ template = NotCalled
    /\ fonts = NotCalled
    /\ endpoint = NotCalled

\* open(template_path), ET.fromstring, and in _render_preview the new image
\* in white or in the background colour of the SVG
ReadTemplate ==
    /\ preview.pc = "called"
    /\ preview.files[preview.template_path] # NoFile
    /\ LET svg_root == fromstring(preview.files[preview.template_path])
           bg_color == extract_background_color(svg_root)
       IN  preview' = [preview EXCEPT
               !.pc = "images",
               !.svg_root = svg_root,
               !.i = 1,
               !.raster = <<Draw("canvas", "new",
                                 <<0, 0, svg_root.width, svg_root.height>>,
                                 IF bg_color = NoColor THEN "white" ELSE bg_color,
                                 "", "")>>]
    /\ UNCHANGED nonPreview

\* the template file cannot be read: raise Exception("Preview generation failed")
ReadTemplateFails ==
    /\ preview.pc = "called"
    /\ preview.files[preview.template_path] = NoFile
    /\ preview' = [preview EXCEPT !.pc = "raised"]
    /\ UNCHANGED nonPreview

\* one turn of the loop of _render_image_placeholders; a turn that raises
\* ends the loop in `except Exception` of _render_image_placeholders
RenderImageRegion ==
    /\ preview.pc = "images"
    /\ preview.i <= Len(preview.analysis.image_regions)
    /\ LET turn == render_image_region(preview.analysis.image_regions[preview.i],
                                       preview.i, preview.outcomes[preview.i])
       IN  preview' = [preview EXCEPT
               !.raster = @ \o turn.drawn,
               !.i = IF turn.raises THEN Len(preview.analysis.image_regions) + 1
                     ELSE @ + 1]
    /\ UNCHANGED nonPreview

\* await self._render_text_elements(draw, svg_root), after the loop over the
\* image regions has ended
RenderTextElements ==
    /\ preview.pc = "images"
    /\ preview.i > Len(preview.analysis.image_regions)
    /\ preview' = [preview EXCEPT
            !.pc = "decorative",
            !.raster = @ \o render_text_elements(preview.svg_root)]
    /\ UNCHANGED nonPreview

\* await self._render_decorative_elements(draw, svg_root)
RenderDecorativeElements ==
    /\ preview.pc = "decorative"
    /\ preview' = [preview EXCEPT
            !.pc = "save",
            !.raster = @ \o render_decorative_elements(iter(preview.svg_root, "rect"))]
    /\ UNCHANGED nonPreview

\* preview_image.save(preview_path, "JPEG", ...) and the return
SavePreview ==
    /\ preview.pc = "save"
    /\ preview' = [preview EXCEPT
            !.pc = "returned",
            !.files = [@ EXCEPT ![preview_path(preview.template_path,
                                               preview.template_name)] =
                                    [raster |-> preview.raster]]]
    /\ UNCHANGED nonPreview

\* the preview cannot be written: raise Exception("Preview generation failed")
SavePreviewFails ==
    /\ preview.pc = "save"
    /\ preview' = [preview EXCEPT !.pc = "raised"]
    /\ UNCHANGED nonPreview

\* create_preview is called again with the same template, analysis and
\* outcomes of the stock photos
CreatePreviewAgain ==
    /\ preview.pc = "returned"
    /\ preview.renders < MaxRenders
    /\ preview' = [preview EXCEPT
            !.pc = "called",
            !.svg_root = NoRoot,
            !.raster = <<>>,
            !.i = 1,
            !.previous = preview.raster,
            !.renders = @ + 1]
    /\ UNCHANGED nonPreview

PreviewNext ==
    \/ ReadTemplate
    \/ ReadTemplateFails
    \/ RenderImageRegion
    \/ RenderTextElements
    \/ RenderDecorativeElements
    \/ SavePreview
    \/ SavePreviewFails
    \/ CreatePreviewAgain

PreviewSpec == PreviewInit /\ [][PreviewNext]_vars

(***************************************************************************)
(* Part IX.  FontManager                                                   *)
(*                                                                         *)
(* The registry is a dict; it is kept as the sequence of its entries in    *)
(* insertion order, which is the order of iteration.  The font files are   *)
(* the set of paths that exist; the environment may delete one.            *)
(***************************************************************************)
MaxFontCalls == 4

supported_formats == {".ttf", ".otf", ".woff", ".woff2"}

\* the paths given to register_font, with stem and suffix
FontPaths ==
    {[path |-> "fonts/Lato.ttf", stem |-> "Lato", suffix |-> ".ttf"],
     [path |-> "fonts/Lora.otf", stem |-> "Lora", suffix |-> ".otf"],
     [path |-> "fonts/notes.txt", stem |-> "notes", suffix |-> ".txt"]}

\* the ids of the web-safe fonts: f"web_safe_{font_name.lower().replace(' ', '_')}"
web_safe_fonts ==
    <<"web_safe_arial", "web_safe_helvetica", "web_safe_times_new_roman",
      "web_safe_georgia", "web_safe_courier_new", "web_safe_verdana",
      "web_safe_trebuchet_ms", "web_safe_impact">>

\* font_id = f"{datetime.now().strftime('%Y%m%d_%H%M%S')}_{font_path.stem}"
font_id(second, font_path) == <<second, font_path.stem>>

\* self.font_registry[font_id] = {...}: a new key is appended, the value of a
\* key already there is replaced in its place
registry_set(registry, id, info) ==
    IF \E i \in DOMAIN registry : registry[i].id = id
    THEN [i \in DOMAIN registry |-> IF registry[i].id = id THEN info ELSE registry[i]]
    ELSE Append(registry, info)

\* the entries of the registry whose file does not exist
Stale(registry, files) == {i \in DOMAIN registry : registry[i].path \notin files}

Remove(seq, i) == SubSeq(seq, 1, i - 1) \o SubSeq(seq, i + 1, Len(seq))

ids_of_existing(registry, files) ==
    LET existing == SelectSeq(registry, LAMBDA info : info.path \in files)
    IN  [i \in DOMAIN existing |-> existing[i].id]

\* list_fonts(): the loop over self.font_registry.items() appends the entries
\* whose file exists; `del self.font_registry[font_id]` inside the loop makes
\* the next step of the iteration raise RuntimeError (dictionary changed size
\* during iteration), also when the deleted entry was the last one
list_fonts(registry, files) ==
    IF Stale(registry, files) = {}
    THEN [raised |-> FALSE,
          fonts |-> web_safe_fonts \o ids_of_existing(registry, files),
          registry |-> registry]
    ELSE LET first == CHOOSE i \in Stale(registry, files) :
                          \A j \in Stale(registry, files) : i <= j
         IN  [raised |-> TRUE, fonts |-> <<>>, registry |-> Remove(registry, first)]

NoFonts == [raised |-> FALSE, fonts |-> <<>>]

FontsInit ==
    /\ fonts = [pc |-> "ready", registry |-> <<>>, saved |-> <<>>,
                files |-> {f.path : f \in FontPaths}, second |-> 0,
                calls |-> 0, last |-> "none", result |-> NoFonts]
    /\ keys = {}
    /\ cache = <<>>
    /\ now = 0
    /\ call = [c \in Callers |-> Idle]
    /\ loop = 0
    /\ ncalls = 0
    /\ stats = [total_entries |-> 0, valid_entries |-> 0, expired_entries |-> 0]
    /\ image = NoImage
    /\ apc = "start"
    /\ results = <<>>
    /\ colors = NotCalled
    /\ text = NotCalled
    /\ layout = NotCalled
    /\ minimal = NotCalled
    /\ template = NotCalled
    /\ preview = NotCalled
    /\ endpoint = NotCalled

\* register_font(font_path) of a file that exists and has a supported format,
\* in the same second as the call before it or in a later one
RegisterFont ==
    /\ fonts.calls < MaxFontCalls
    /\ \E font_path \in FontPaths, second \in {fonts.second, fonts.second + 1} :
        /\ font_path.path \in fonts.files
        /\ font_path.suffix \in supported_formats
        /\ LET registry == registry_set(fonts.registry, font_id(second, font_path),
                                        [id |-> font_id(second, font_path),
                                         path |-> font_path.path])
           IN  fonts' = [fonts EXCEPT !.registry = registry, !.saved = registry,
                                      !.second = second, !.calls = @ + 1,
                                      !.last = "register_font", !.result = NoFonts]
    /\ UNCHANGED nonFonts

\* register_font raises: the file is not found or the format is unsupported
RegisterFontFails ==
    /\ fonts.calls < MaxFontCalls
    /\ \E font_path \in FontPaths :
        /\ font_path.path \notin fonts.files \/ font_path.suffix \notin supported_formats
        /\ fonts' = [fonts EXCEPT !.calls = @ + 1, !.last = "register_font",
                                  !.result = [raised |-> TRUE, fonts |-> <<>>]]
    /\ UNCHANGED nonFonts

\* a font file is deleted from outside the program
DeleteFontFile ==
    /\ fonts.calls < MaxFontCalls
    /\ \E path \in fonts.files :
        fonts' = [fonts EXCEPT !.files = @ \ {path}, !.calls = @ + 1,
                               !.last = "delete", !.result = NoFonts]
    /\ UNCHANGED nonFonts

\* list_fonts(): the registry is saved when the loop ends without raising
ListFonts ==
    /\ fonts.calls < MaxFontCalls
    /\ LET listed == list_fonts(fonts.registry, fonts.files)
       IN  fonts' = [fonts EXCEPT
               !.registry = listed.registry,
               !.saved = IF listed.raised THEN @ ELSE listed.registry,
               !.calls = @ + 1,
               !.last = "list_fonts",
               !.result = [raised |-> listed.raised, fonts |-> listed.fonts]]
    /\ UNCHANGED nonFonts

FontsNext ==
    \/ RegisterFont
    \/ RegisterFontFails
    \/ DeleteFontFile
    \/ ListFonts

FontsSpec == FontsInit /\ [][FontsNext]_vars

(***************************************************************************)
(* Part X.  The API handlers                                               *)
(*                                                                         *)
(* A handler validates the request, raising HTTPException at the first     *)
(* check that fails, then processes it; what is raised inside its `try`    *)
(* goes through its except clauses.  HTTPException is an Exception.        *)
(***************************************************************************)
ALLOWED_FONT_TYPES ==
    {"font/ttf", "font/otf", "application/font-woff", "application/font-woff2"}

\* the handlers: the application and the function
Handlers ==
    {<<"main", "analyze_image">>, <<"main", "generate_template">>,
     <<"main", "generate_preview">>, <<"main", "upload_font">>,
     <<"main", "serve_template">>,
     <<"backend", "analyze_image">>, <<"minimal", "analyze_image">>}

\* the requests: the content type, length and filename of the upload, whether
\* the upload decodes, and whether the analysis, template or file asked for
\* exists
Requests ==
    [content_type : {"image/png", "image/gif", "font/ttf"},
     length : {0, 1024, MAX_FILE_SIZE + 1},
     filename : {"", "pin.png"},
     decodable : BOOLEAN,
     exists : BOOLEAN]

Passed == 0

\* the status of the HTTPException raised by the first validation check of
\* the handler that the request fails, Passed when it fails none
validation(handler, request) ==
    CASE handler \in {<<"main", "analyze_image">>, <<"minimal", "analyze_image">>} ->
             IF request.content_type \notin ALLOWED_IMAGE_TYPES THEN 400
             ELSE IF request.length > MAX_FILE_SIZE THEN 400
             ELSE Passed
      [] handler = <<"main", "upload_font">> ->
             IF request.content_type \notin ALLOWED_FONT_TYPES THEN 400
             ELSE IF request.length > MAX_FILE_SIZE THEN 400
             ELSE Passed
      [] handler \in {<<"main", "generate_template">>, <<"main", "generate_preview">>,
                      <<"main", "serve_template">>} ->
             IF ~request.exists THEN 404 ELSE Passed
      [] handler = <<"backend", "analyze_image">> ->
             IF request.filename = "" THEN 422
             ELSE IF request.content_type
                        \notin {"image/jpeg", "image/jpg", "image/png", "image/webp"}
             THEN 400
             ELSE IF request.length = 0 THEN 422
             ELSE IF ~request.decodable THEN 400
             ELSE Passed

\* the checks of the handler are inside a try statement
in_try(handler) == handler # <<"main", "serve_template">>

\* the try statement of the handler has `except HTTPException: raise` before
\* `except Exception`
reraises_http_exception(handler) == handler[1] \in {"backend", "minimal"}

EndpointInit ==
    /\ \E handler \in Handlers, request \in Requests :
            endpoint = [pc |-> "called", handler |-> handler, request |-> request,
                        rejected |-> Passed, status |-> 0]
    /\ keys = {}
    /\ cache = <<>>
    /\ now = 0
    /\ call = [c \in Callers |-> Idle]
    /\ loop = 0
    /\ ncalls = 0
    /\ stats = [total_entries |-> 0, valid_entries |-> 0, expired_entries |-> 0]
    /\ image = NoImage
    /\ apc = "start"
    /\ results = <<>>
    /\ colors = NotCalled
    /\ text = NotCalled
    /\ layout = NotCalled
    /\ minimal = NotCalled
    /\ template = NotCalled
    /\ preview = NotCalled
    /\ fonts = NotCalled

\* the validation checks: raise HTTPException(status_code=...) or go on
Validate ==
    /\ endpoint.pc = "called"
    /\ LET status == validation(endpoint.handler, endpoint.request)
       IN  endpoint' = [endpoint EXCEPT
               !.pc = IF status = Passed THEN "processing" ELSE "http_exception",
               !.rejected = status]
    /\ UNCHANGED nonEndpoint

\* the request is processed and the response returned
ProcessReturns ==
    /\ endpoint.pc = "processing"
    /\ endpoint' = [endpoint EXCEPT !.pc = "responded", !.status = 200]
    /\ UNCHANGED nonEndpoint

\* the processing raises an exception that is not an HTTPException
ProcessRaises ==
    /\ endpoint.pc = "processing"
    /\ in_try(endpoint.handler)
    /\ endpoint' = [endpoint EXCEPT !.pc = "exception"]
    /\ UNCHANGED nonEndpoint

\* the HTTPException leaves the handler, outside a try statement or through
\* `except HTTPException: raise`, and is answered with its status
HTTPExceptionPropagates ==
    /\ endpoint.pc = "http_exception"
    /\ ~in_try(endpoint.handler) \/ reraises_http_exception(endpoint.handler)
    /\ endpoint' = [endpoint EXCEPT !.pc = "responded", !.status = endpoint.rejected]
    /\ UNCHANGED nonEndpoint

\* except Exception as e: raise HTTPException(status_code=500, ...)
ExceptException ==
    /\ \/ endpoint.pc = "exception"
       \/ /\ endpoint.pc = "http_exception"
          /\ in_try(endpoint.handler)
          /\ ~reraises_http_exception(endpoint.handler)
    /\ endpoint' = [endpoint EXCEPT !.pc = "responded", !.status = 500]
    /\ UNCHANGED nonEndpoint

EndpointNext ==
    \/ Validate
    \/ ProcessReturns
    \/ ProcessRaises
    \/ HTTPExceptionPropagates
    \/ ExceptException

EndpointSpec == EndpointInit /\ [][EndpointNext]_vars

(***************************************************************************)
(* Claims about StockPhotoService                                          *)
(***************************************************************************)
Nothing(e) == e.url = None
RandomCalls == {c \in Callers : call[c].kind = "random"}

\* C1: with none of the three provider keys configured, a get_random_image
\* call never has a provider request in flight and never consulted a
\* provider, and what it returns is a picsum URL of the requested size, not
\* None (the call ends by returning, never by raising).
C1_NoKeysFallback ==
    keys = {} =>
        \A c \in Callers :
            /\ call[c].pc # "request"
            /\ \A i \in DOMAIN call[c].hist :
                    call[c].hist[i].outcome = "unconfigured"
            /\ (call[c].kind = "random" /\ call[c].pc = "return") =>
                    /\ call[c].result # None
                    /\ call[c].result.host = "picsum"
                    /\ call[c].result.w = call[c].width
                    /\ call[c].result.h = call[c].height

C1_Witness ==
    /\ keys = {}
    /\ \E c \in RandomCalls :
            /\ call[c].pc = "return"
            /\ call[c].category = "business"
            /\ call[c].result.host = "picsum"

\* C2: get_random_image goes through unsplash, pexels, pixabay in that
\* order: the i-th provider dealt with is the i-th of that order, every
\* provider before the current one yielded nothing, the URL returned is the
\* one of the first provider that yielded one, and the picsum fallback comes
\* only after all three yielded nothing.
C2_FixedOrder ==
    \A c \in RandomCalls :
        LET r == call[c]
            h == r.hist
            order == <<"unsplash", "pexels", "pixabay">>
            allNothing == \A i \in DOMAIN h : Nothing(h[i])
        IN  /\ Len(h) <= 3
            /\ \A i \in DOMAIN h :
                    h[i].api = order[i] /\ (i < Len(h) => Nothing(h[i]))
            /\ r.pc = "request" =>
                    allNothing /\ Len(h) < 3 /\ r.key[1] = order[Len(h) + 1]
            /\ r.pc = "api" => allNothing /\ r.idx = Len(h) + 1
            /\ r.pc = "fallback" => allNothing /\ Len(h) = 3
            /\ r.pc = "return" =>
                    \/ /\ Len(h) >= 1
                       /\ ~Nothing(h[Len(h)])
                       /\ r.result = h[Len(h)].url
                       /\ r.result.host = order[Len(h)]
                    \/ /\ Len(h) = 3
                       /\ allNothing
                       /\ r.result.host = "picsum"

C2_Witness ==
    \E c \in RandomCalls :
        /\ call[c].pc = "return"
        /\ Len(call[c].hist) = 3
        /\ call[c].hist[1].outcome = "none"
        /\ call[c].hist[2].outcome = "exc"
        /\ call[c].hist[3].outcome = "url"
        /\ call[c].result.host = "pixabay"

\* C3: an exception raised while a provider is queried does not end
\* get_random_image: after it the next provider is tried (or, after the
\* last, the fallback), and a call in which a provider raised returns the
\* URL of a later provider or the picsum URL, never None.
C3_ExceptionDoesNotAbort ==
    \A c \in RandomCalls :
        LET r == call[c]
            h == r.hist
        IN  \A i \in DOMAIN h :
                h[i].outcome = "exc" =>
                    /\ i = Len(h) =>
                            IF i < 3
                            THEN r.pc \in {"api", "request"} /\ r.idx = i + 1
                            ELSE r.pc \in {"fallback", "return"}
                    /\ r.pc = "return" =>
                            /\ r.result # None
                            /\ \/ r.result = h[Len(h)].url
                               \/ Len(h) = 3 /\ r.result.host = "picsum"

C3_Witness ==
    \E c \in RandomCalls :
        /\ call[c].pc = "return"
        /\ Len(call[c].hist) = 3
        /\ \A i \in 1..3 : call[c].hist[i].outcome = "exc"
        /\ call[c].result.host = "picsum"

\* what a recorded cache lookup says about the TTL: the key was in the
\* cache and the entry was younger than one hour
FoundValid(look) == look.present /\ look.at - look.ts < cache_duration

\* C4: a configured provider answers from the cache, without a request,
\* exactly when its lookup found an entry for (provider, category, width,
\* height) younger than the TTL of one hour (an entry aged exactly the TTL
\* is expired); otherwise it issues a request, and a successful answer is
\* stored under that key with the URL returned and the time of storing.
C4_CacheTtl ==
    \A c \in Callers :
        LET r == call[c]
        IN  /\ r.pc = "request" =>
                    /\ r.key[1] \in keys
                    /\ ~FoundValid(r.look)
            /\ \A i \in DOMAIN r.hist :
                    LET e == r.hist[i]
                    IN  /\ e.outcome = "hit" =>
                                /\ FoundValid(e.look)
                                /\ e.key \in DOMAIN cache
                                /\ cache[e.key] =
                                       [url |-> e.url, timestamp |-> e.look.ts]
                        /\ e.outcome = "url" =>
                                /\ ~FoundValid(e.look)
                                /\ e.key[1] = e.api
                                /\ r.category # NoCategory => e.key[2] = r.category
                                /\ e.key[3] = r.width /\ e.key[4] = r.height
                                /\ e.look.at <= e.at /\ e.at <= now
                                /\ e.key \in DOMAIN cache
                                /\ cache[e.key] = [url |-> e.url, timestamp |-> e.at]

C4_Witness ==
    \E c \in Callers :
        /\ call[c].pc = "request"
        /\ call[c].look.present
        /\ call[c].look.at - call[c].look.ts = cache_duration

\* C5: no step removes a cache entry or changes the URL or timestamp of an
\* entry that is within its TTL, except clear_cache, which empties the cache.
C5_EntriesStay ==
    [][\A k \in DOMAIN cache :
            IF k \in DOMAIN cache'
            THEN now - cache[k].timestamp < cache_duration => cache'[k] = cache[k]
            ELSE ClearCache /\ cache' = <<>>]_vars

C5_Witness ==
    \E k1, k2 \in DOMAIN cache :
        /\ cache[k1].timestamp < cache[k2].timestamp
        /\ now - cache[k1].timestamp < cache_duration

\* C6: whenever a get_random_image call is waiting for its provider's
\* response and another get_random_image call, for a different cache key,
\* has been made on the same service, the other call can run.
C6_DifferentKeysDoNotBlock ==
    \A c, d \in RandomCalls :
        (/\ c # d
         /\ call[d].pc = "request"
         /\ call[c].pc = "pending"
         /\ call[c].category # NoCategory
         /\ call[c].category # call[d].key[2])
            => CanRun(c)

\* C7: whenever a get_random_image call has a provider request in flight and
\* another get_random_image call for the same category and size has been
\* made, the other call can run to its own cache lookup, miss the cache and
\* issue its own request: an in-flight request holds no other call back.
C7_SameKeyNotDeduplicated ==
    \A c, d \in RandomCalls :
        (/\ c # d
         /\ call[d].pc = "request"
         /\ call[c].pc = "pending"
         /\ call[c].category = call[d].key[2]
         /\ call[c].width = call[d].width
         /\ call[c].height = call[d].height)
            => CanRun(c)

(***************************************************************************)
(* Claims about ImageAnalyzer                                              *)
(***************************************************************************)
Pinterest == {results[i].value : i \in {j \in DOMAIN results :
                    results[j].name = "pinterest_optimization"}}

\* C8: in full mode analyze_image returns a result for every decodable
\* image: the failure of one sub-analysis stays in its own sub-result and
\* the call does not raise.
C8_DecodableNeverRaises ==
    image.decodable => apc # "raised"

\* C9: the platform score is an integer in [0,100] equal to 100 minus the
\* penalties of the violated heuristics (aspect ratio outside [0.5,0.8]: 15,
\* width < 600: 10, height < 900: 10, mean brightness < 50: 10 or > 200: 5,
\* fewer than 100 unique colours: 5), with exactly one recommendation for
\* each penalty applied.
C9_ScoreFromPenalties ==
    \A p \in Pinterest :
        LET w == image.width
            h == image.height
            n == 3 * w * h
            aspect == 2 * w < h \/ 5 * w > 4 * h
            dark == image.total < 50 * n
            bright == image.total > 200 * n
            few == image.unique < 100
            One(b) == IF b THEN 1 ELSE 0
            Has(t) == Cardinality({i \in DOMAIN p.recommendations :
                                        p.recommendations[i] = t})
        IN  /\ p.pinterest_score \in 0..100
            /\ p.pinterest_score =
                   100 - 15 * One(aspect) - 10 * One(w < 600) - 10 * One(h < 900)
                       - 10 * One(dark) - 5 * One(bright) - 5 * One(few)
            /\ Has("aspect") = One(aspect)
            /\ Has("width") = One(w < 600)
            /\ Has("height") = One(h < 900)
            /\ Has("dark") = One(dark)
            /\ Has("bright") = One(bright)
            /\ Has("colors") = One(few)
            /\ Len(p.recommendations) =
                   One(aspect) + One(w < 600) + One(h < 900) + One(dark)
                       + One(bright) + One(few)

C9_Witness ==
    \E p \in Pinterest :
        /\ p.pinterest_score = 50
        /\ p.recommendations = <<"aspect", "width", "height", "dark", "colors">>

\* what C10 says of a 300x200 image: a score below 80 and at least two
\* recommendations, the aspect-ratio one and a minimum-size one among them
Landscape300x200(p) ==
    (image.width = 300 /\ image.height = 200) =>
        /\ p.pinterest_score < 80
        /\ Len(p.recommendations) >= 2
        /\ \E i \in DOMAIN p.recommendations : p.recommendations[i] = "aspect"
        /\ \E i \in DOMAIN p.recommendations :
                p.recommendations[i] \in {"width", "height"}

\* C10 as stated: every 1000x1500 image scores at or near 100 with no
\* recommendation, and every 300x200 image scores below 80 with at least two
\* recommendations, the aspect-ratio one and a minimum-size one among them.
C10_EveryPortraitIsOptimal ==
    \A p \in Pinterest :
        /\ (image.width = 1000 /\ image.height = 1500) =>
                p.pinterest_score >= 95 /\ p.recommendations = <<>>
        /\ Landscape300x200(p)

\* C10 as amended: a 1000x1500 image whose mean brightness lies in [50,200]
\* and which has at least 100 unique colours scores 100 with no
\* recommendation; any other 1000x1500 image gets only brightness and
\* colour-variety recommendations and scores at least 85; every 300x200
\* image scores below 80 with at least two recommendations, the aspect-ratio
\* one and a minimum-size one among them.
C10_PortraitScenario ==
    \A p \in Pinterest :
        /\ (image.width = 1000 /\ image.height = 1500) =>
                /\ (/\ image.total >= 50 * 3 * 1000 * 1500
                    /\ image.total <= 200 * 3 * 1000 * 1500
                    /\ image.unique >= 100) =>
                        p.pinterest_score = 100 /\ p.recommendations = <<>>
                /\ p.pinterest_score >= 85
                /\ \A i \in DOMAIN p.recommendations :
                        p.recommendations[i] \in {"dark", "bright", "colors"}
        /\ Landscape300x200(p)

C10_Witness ==
    /\ image.width = 1000 /\ image.height = 1500
    /\ image.unique = 100
    /\ image.total = 50 * 3 * 1000 * 1500
    /\ \E p \in Pinterest : p.pinterest_score = 100 /\ p.recommendations = <<>>

(***************************************************************************)
(* Claims about ImageAnalyzer._analyze_colors                              *)
(***************************************************************************)
ColorsReturned == colors.pc = "returned"

\* C11: for a 100x100 image whose pixels all have one colour, pure black and
\* pure white included, dominant_colors has length 1 and its swatch has
\* percentage 100.0 and the colour of the image.
C11_SingleColourImage ==
    (/\ ColorsReturned
     /\ Len(colors.pixels) = 1
     /\ colors.pixels[1].n = 100 * 100) =>
        /\ Len(colors.dominant_colors) = 1
        /\ colors.dominant_colors[1].percentage = 1000
        /\ colors.dominant_colors[1].rgb = colors.pixels[1].rgb

C11_Witness ==
    /\ ColorsReturned
    /\ colors.pixels = <<Run(<<0, 0, 0>>, 100 * 100)>>
    /\ colors.dominant_colors[1].cluster = 7
    /\ colors.dominant_colors[1].rgb = <<0, 0, 0>>

\* the mean channel value of a pixel lies in [20,235]
InClosedRange(rgb) ==
    rgb[1] + rgb[2] + rgb[3] >= 3 * 20 /\ rgb[1] + rgb[2] + rgb[3] <= 3 * 235

\* C12: the pixels clustered are exactly the pixels whose mean channel value
\* lies in [20,235], 20 and 235 included, or all the pixels when no pixel
\* lies in that range, and the clustering yields at most 8 swatches.
C12_ClosedRangeIsClustered ==
    ColorsReturned =>
        LET kept == SelectSeq(colors.pixels, LAMBDA run : InClosedRange(run.rgb))
        IN  /\ colors.filtered_pixels = IF kept = <<>> THEN colors.pixels ELSE kept
            /\ Len(colors.dominant_colors) <= 8

\* C13: the swatches are in the order of non-increasing cluster population,
\* and clusters of equal population are in ascending order of their cluster
\* index, whatever the order of the pixels.
C13_TiesByClusterIndex ==
    ColorsReturned =>
        \A i, j \in DOMAIN colors.dominant_colors :
            i < j =>
                \/ colors.dominant_colors[i].count > colors.dominant_colors[j].count
                \/ /\ colors.dominant_colors[i].count = colors.dominant_colors[j].count
                   /\ colors.dominant_colors[i].cluster < colors.dominant_colors[j].cluster

(***************************************************************************)
(* Claims about ImageAnalyzer._analyze_text                                *)
(***************************************************************************)
\* C14: every region kept in text_regions has non-empty text and a
\* confidence above 30, and the font inference of _analyze_fonts is made
\* from the regions whose confidence is at least 50 only.
C14_TwoTierThreshold ==
    (text.pc = "returned" /\ ~text.raised) =>
        /\ \A i \in DOMAIN text.text_regions :
                /\ text.text_regions[i].text # ""
                /\ text.text_regions[i].confidence > 30
        /\ text.font_analysis =
              analyze_fonts(SelectSeq(text.text_regions,
                                      LAMBDA region : region.confidence >= 50))

(***************************************************************************)
(* Claims about the layout analysis                                        *)
(***************************************************************************)
InUnitInterval(score) == 0 <= score.num /\ score.num <= score.den

\* a correlation coefficient num / sqrt(den2) in [0,1]
CoefficientInUnitInterval(r) == ~r.nan /\ 0 <= r.num /\ r.num * r.num <= r.den2

\* C15: line_alignment_score and every intersection score of the rule of
\* thirds, and vertical_symmetry and horizontal_symmetry, lie in [0,1] for
\* every image.
C15_ScoresInUnitInterval ==
    layout.pc = "returned" =>
        IF layout.fn = "rule_of_thirds"
        THEN /\ InUnitInterval(layout.result.line_alignment_score)
             /\ \A i \in 1..4 : InUnitInterval(layout.result.intersection_scores[i])
        ELSE /\ CoefficientInUnitInterval(layout.result.vertical_symmetry)
             /\ CoefficientInUnitInterval(layout.result.horizontal_symmetry)

\* C16: neither vertical_symmetry nor horizontal_symmetry of the result of
\* _analyze_symmetry is NaN; a NaN correlation is reported as 0.0.
C16_NeverNaN ==
    (layout.pc = "returned" /\ layout.fn = "symmetry") =>
        /\ ~layout.result.vertical_symmetry.nan
        /\ ~layout.result.horizontal_symmetry.nan
        /\ (\A y \in DOMAIN layout.arg : \A x \in DOMAIN layout.arg[y] :
                layout.arg[y][x] = layout.arg[0][0]) =>
                    /\ layout.result.vertical_symmetry = Coefficient(0, 1)
                    /\ layout.result.horizontal_symmetry = Coefficient(0, 1)

\* a uniform 2x2 image: both correlations are NaN and both scores are 0.0
C16_Witness ==
    /\ layout.pc = "returned"
    /\ layout.fn = "symmetry"
    /\ layout.arg = [y \in 0..1 |-> [x \in 0..1 |-> 255]]
    /\ layout.result.vertical_symmetry = Coefficient(0, 1)
    /\ layout.result.horizontal_symmetry = Coefficient(0, 1)

\* C29: is_symmetric is true exactly when the larger of the reported
\* vertical_symmetry and horizontal_symmetry (NaN reported as 0.0) exceeds
\* 0.7, whichever axis a NaN correlation occurs on.
C29_SymmetricIffLargerScoreAbove07 ==
    (layout.pc = "returned" /\ layout.fn = "symmetry") =>
        (layout.result.is_symmetric <=>
            (Above07(layout.result.vertical_symmetry)
                \/ Above07(layout.result.horizontal_symmetry)))

(***************************************************************************)
(* Claims about the minimal analyze endpoint                               *)
(***************************************************************************)
\* the response of the lightweight analysis that C17 describes: status 200,
\* no text element, image region or font, the constant background stub, the
\* size of the image itself, and at most 5 colours
LightweightResponse ==
    /\ minimal.status = 200
    /\ minimal.content.text_elements = <<>>
    /\ minimal.content.image_regions = <<>>
    /\ minimal.content.fonts = <<>>
    /\ minimal.content.background_info =
          [background_color |-> White, background_type |-> "solid",
           background_variance |-> 0]
    /\ minimal.content.dimensions =
          [width |-> minimal.size[1], height |-> minimal.size[2]]
    /\ Len(minimal.content.colors) <= 5

\* the palette is the result of counting the colours of the 100x100
\* resample: its colours are distinct colours of the resample, as many as
\* there are up to 5, and no colour left out has more pixels than one in it
CountedPalette ==
    LET palette == minimal.content.colors
        chosen == {palette[i].color : i \in DOMAIN palette}
    IN  /\ \A i \in DOMAIN palette : palette[i].type = "dominant"
        /\ chosen \subseteq DOMAIN minimal.resample
        /\ Cardinality(chosen) = Len(palette)
        /\ Len(palette) = Min(5, Len(minimal.resample))
        /\ \A c \in chosen : \A e \in DOMAIN minimal.resample \ chosen :
                minimal.resample[e] <= minimal.resample[c]

\* C17 as stated: for every decodable image the minimal analyze endpoint
\* returns empty text_elements, image_regions and fonts, the background stub
\* (solid, #ffffff, variance 0.0), the image's width and height, and a
\* palette of at most 5 colours counted on the 100x100 resample.
C17_EveryDecodableImage ==
    (minimal.pc = "responded" /\ minimal.decodable) =>
        LightweightResponse /\ CountedPalette

\* C17 as amended: the same for every decodable image that the endpoint
\* accepts (content type JPEG, PNG or WebP, at most 10 MB); the palette is
\* counted on the resample, or is the one fallback colour #ffffff when the
\* colour extraction fails.  Any other decodable upload is answered with
\* status 400.
C17_AcceptedDecodableImage ==
    (minimal.pc = "responded" /\ minimal.decodable) =>
        IF /\ minimal.content_type \in {"image/jpeg", "image/png", "image/webp"}
           /\ minimal.length <= 10 * 1024 * 1024
        THEN /\ LightweightResponse
             /\ \/ CountedPalette
                \/ minimal.content.colors =
                      <<[type |-> "fallback", color |-> White, index |-> 0]>>
        ELSE minimal.status = 400

C17_Witness ==
    /\ minimal.pc = "responded"
    /\ minimal.status = 200
    /\ Len(minimal.resample) = 6
    /\ Len(minimal.content.colors) = 5
    /\ minimal.size = <<1000, 1500>>
    /\ minimal.length = 10 * 1024 * 1024

(***************************************************************************)
(* Claims about TemplateGenerator                                          *)
(***************************************************************************)
TemplateReturned == template.pc = "returned"

\* the place of a kind of element in the order the specification gives
Rank(role) ==
    CASE role = "background" -> 0
      [] role = "image" -> 1
      [] role = "text" -> 2
      [] role = "border" -> 3

Ranked(elements) ==
    {i \in DOMAIN elements :
        elements[i].role \in {"background", "image", "text", "border"}}

InFixedOrder(elements) ==
    /\ elements # <<>> => elements[1].role = "background"
    /\ \A i, j \in Ranked(elements) :
            i < j => Rank(elements[i].role) <= Rank(elements[j].role)
    /\ \A i, j \in Ranked(elements) :
            elements[i].role = "background" /\ elements[j].role = "background"
                => i = j

\* C18: the elements of the SVG are written background first, then the image
\* placeholders, then the text placeholders, then the border, whatever the
\* text elements and image regions of the analysis are: in the SVG being
\* written and in the SVG of the returned template no element comes before
\* an element of an earlier kind, and the first element is the one
\* background.
C18_FixedEmissionOrder ==
    /\ template.pc # "idle" => InFixedOrder(template.svg.elements)
    /\ TemplateReturned => InFixedOrder(template.result.svg_content.elements)

C18_Witness ==
    /\ TemplateReturned
    /\ LET elements == template.result.svg_content.elements
       IN  /\ Len(elements) = 8
           /\ {elements[i].role : i \in DOMAIN elements}
                  = {"background", "image", "text", "border"}
           /\ Len(template.analysis.text_elements) = 2
           /\ Len(template.analysis.image_regions) = 2

\* a box is <<x1, y1, x2, y2>>; two boxes overlap unless one lies entirely to
\* the left of, right of, above or below the other
Overlap(a, b) ==
    ~(a[3] <= b[1] \/ b[3] <= a[1] \/ a[4] <= b[2] \/ b[4] <= a[2])

ElementBox(element) ==
    <<element.x, element.y, element.x + element.width, element.y + element.height>>

\* the boxes of the text and image placeholders of the returned template
PlaceholderBoxes ==
    {template.result.placeholders[i].bbox : i \in DOMAIN template.result.placeholders}

\* C19: a decorative element is in the returned template only when its box
\* overlaps the box of no text or image placeholder of the template.
C19_DecorativeOverlapsNoPlaceholder ==
    TemplateReturned =>
        LET elements == template.result.svg_content.elements
        IN  \A i \in DOMAIN elements :
                elements[i].role = "border" =>
                    \A box \in PlaceholderBoxes :
                        Len(box) = 4 => ~Overlap(ElementBox(elements[i]), box)

PairwiseDistinct(tags) ==
    \A i, j \in DOMAIN tags : i # j => tags[i] # tags[j]

\* the tags of a returned template: those of its placeholder list and those
\* given to the text elements and image regions of its content mapping
PlaceholderTags(result) ==
    [i \in DOMAIN result.placeholders |-> result.placeholders[i].tag]

MappingTags(result) ==
    LET text_elements == Get(result.analysis, "text_elements", <<>>)
        image_regions == Get(result.analysis, "image_regions", <<>>)
    IN  [i \in DOMAIN text_elements |-> text_elements[i].placeholder_tag]
        \o [i \in DOMAIN image_regions |-> image_regions[i].placeholder_tag]

\* C20: within one returned template the placeholder tags {TEXT_i} and
\* {IMAGE_i} are pairwise distinct, in the placeholder list and in the
\* content mapping, and a template created again from the identical
\* analysis carries the same tags as the one created before.
C20_TagsDistinctAndRepeatable ==
    TemplateReturned =>
        /\ PairwiseDistinct(PlaceholderTags(template.result))
        /\ PairwiseDistinct(MappingTags(template.result))
        /\ template.previous # NoTemplate =>
                /\ PlaceholderTags(template.result) = PlaceholderTags(template.previous)
                /\ MappingTags(template.result) = MappingTags(template.previous)

C20_Witness ==
    /\ TemplateReturned
    /\ template.creations = 2
    /\ template.previous # NoTemplate
    /\ PlaceholderTags(template.result)
          = <<"{TEXT_1}", "{TEXT_2}", "{IMAGE_1}", "{IMAGE_2}">>
    /\ MappingTags(template.previous)
          = <<"{TEXT_1}", "{TEXT_2}", "{IMAGE_1}", "{IMAGE_2}">>

\* the tags written as the content of the text-placeholder and
\* image-placeholder elements of an SVG
SvgTags(svg) ==
    {svg.elements[i].content :
        i \in {j \in DOMAIN svg.elements :
                  /\ svg.elements[j].tag = "text"
                  /\ svg.elements[j].role \in {"image", "text"}}}

MetadataTags(result) ==
    {result.placeholders[i].tag : i \in DOMAIN result.placeholders}

\* C21: in every returned template each tag that is the content of a text or
\* image placeholder element of the SVG is among the tags of the placeholders
\* returned with it, also when the content mapping is replaced by {} or the
\* SVG by the error SVG.
C21_NoOrphanTags ==
    TemplateReturned =>
        SvgTags(template.result.svg_content) \subseteq MetadataTags(template.result)

C21_Witness ==
    /\ TemplateReturned
    /\ SvgTags(template.result.svg_content) = {"{TEXT_1}", "{IMAGE_1}", "{IMAGE_2}"}
    /\ template.previous # NoTemplate

\* C30: every rectangle of the SVG of a returned template, the border and
\* the rectangle of the error SVG included, lies within the canvas
\* [0,width] x [0,height] that the svg element declares.
C30_RectanglesWithinCanvas ==
    TemplateReturned =>
        LET svg == template.result.svg_content
        IN  \A i \in DOMAIN svg.elements :
                svg.elements[i].tag = "rect" =>
                    LET box == ElementBox(svg.elements[i])
                    IN  /\ 0 <= box[1] /\ box[1] <= box[3] /\ box[3] <= svg.width
                        /\ 0 <= box[2] /\ box[2] <= box[4] /\ box[4] <= svg.height

(***************************************************************************)
(* Claims about PreviewGenerator                                           *)
(***************************************************************************)
\* the template file that create_preview renders
TemplateFile == preview.files[preview.template_path]
IsDocument(file) == "svg" \in DOMAIN file
TextPassDone == preview.pc \in {"decorative", "save", "returned"}
PreviewReturned == preview.pc = "returned"

\* the text and rect elements of the template document, as written in it
ElementsOf(document, tag) ==
    SelectSeq(document.svg.elements, LAMBDA e : e.tag = tag)

Drawn(pass, op) ==
    {i \in DOMAIN preview.raster :
        preview.raster[i].pass = pass /\ preview.raster[i].op = op}

\* C22: once the text elements are rendered, every text element of the
\* template is drawn, at its position, as the sample string of the table
\* when its content is a tag of the table and as its content otherwise.
C22_TextDrawnAsSampleOrVerbatim ==
    (TextPassDone /\ IsDocument(TemplateFile)) =>
        LET texts == ElementsOf(TemplateFile, "text")
        IN  \A k \in DOMAIN texts :
                \E i \in Drawn("text", "text") :
                    /\ preview.raster[i].box[1] = texts[k].x
                    /\ preview.raster[i].box[2] = texts[k].y
                    /\ preview.raster[i].text =
                           IF texts[k].content \in DOMAIN sample_content
                           THEN sample_content[texts[k].content]
                           ELSE texts[k].content

\* the tags a template or a preview can hold
KnownTags ==
    DOMAIN sample_content \cup common_placeholders
        \cup {text_tag(i) : i \in 1..(MaxRegions + 1)}
        \cup {image_tag(i) : i \in 1..(MaxRegions + 1)}

\* C23: for a template written by create_template and rendered, every tag of
\* the template's elements has a sample value (create_preview takes no
\* binding), and no text drawn into the preview is a literal tag.
C23_NoUnresolvedTag ==
    (PreviewReturned /\ IsDocument(TemplateFile) /\ TemplateFile.xmlns) =>
        /\ SvgTags(TemplateFile.svg) \subseteq DOMAIN sample_content
        /\ \A i \in DOMAIN preview.raster : preview.raster[i].text \notin KnownTags

\* the regions whose stock photo is asked for, and those of them for which
\* it cannot be obtained
PhotoRegions ==
    {i \in DOMAIN preview.analysis.image_regions :
        LET region == preview.analysis.image_regions[i]
        IN  /\ "bbox" \in DOMAIN region
            /\ Len(region.bbox) = 4
            /\ Get(region, "type", "unknown") = "real_photo"}
FailedPhotoRegions == {i \in PhotoRegions : preview.outcomes[i] # "image"}
BoxRegions ==
    {i \in DOMAIN preview.analysis.image_regions :
        LET region == preview.analysis.image_regions[i]
        IN  "bbox" \in DOMAIN region /\ Len(region.bbox) = 4}

DrawnFor(i, op, fill) ==
    \E k \in Drawn("image", op) :
        /\ preview.raster[k].box = preview.analysis.image_regions[i].bbox
        /\ preview.raster[k].fill = fill

\* C24: a region whose stock photo cannot be obtained is drawn as the neutral
\* placeholder box (grey fill, dashed border, its tag centred), every other
\* image region and the text and decorative elements are rendered, and
\* create_preview does not raise for it.
C24_FailedPhotoDegradesToPlaceholder ==
    (TextPassDone /\ FailedPhotoRegions # {}) =>
        /\ \A i \in FailedPhotoRegions :
               /\ DrawnFor(i, "rectangle", "#e0e0e0")
               /\ DrawnFor(i, "dashes", "#cccccc")
               /\ DrawnFor(i, "text", "#666666")
        /\ \A i \in BoxRegions :
               \E k \in Drawn("image", "rectangle") :
                   preview.raster[k].box = preview.analysis.image_regions[i].bbox

\* C25: create_preview does not change the template: from the reading of the
\* file to the return the file is the document that was read and the parsed
\* elements are those of the file; and a second render of the same template
\* with the same analysis and the same outcomes of the stock photos gives the
\* raster of the first.
C25_TemplateUnchangedAndRepeatable ==
    /\ preview.pc \in {"images", "decorative", "save", "returned"} =>
           /\ IsDocument(TemplateFile)
           /\ preview.svg_root = fromstring(TemplateFile)
    /\ (PreviewReturned /\ preview.renders > 1) => preview.raster = preview.previous

C25_Witness ==
    /\ PreviewReturned
    /\ preview.renders = 2
    /\ TemplateFile.xmlns
    /\ Len(preview.raster) >= 5
    /\ preview.raster = preview.previous
    /\ PhotoRegions # {}

C28_ListFontsPrunesAndSucceeds ==
    fonts.last = "list_fonts" =>
        /\ ~fonts.result.raised
        /\ Stale(fonts.registry, fonts.files) = {}
        /\ fonts.result.fonts
               = web_safe_fonts \o ids_of_existing(fonts.registry, fonts.files)

(***************************************************************************)
(* Claims about the API handlers                                           *)
(***************************************************************************)
\* C27: in every handler of the three applications a request that a
\* validation check rejects is answered with the status raised at that check
\* (400, 404 or 422), never with 500.
C27_RejectionKeepsItsStatus ==
    (endpoint.pc = "responded" /\ endpoint.rejected # Passed) =>
        /\ endpoint.status = endpoint.rejected
        /\ endpoint.status \in {400, 404, 422}

====
